---- MODULE Spec2Model ----
(***************************************************************************)
(* A model of the filter library: the lexer (a rune-level state machine),  *)
(* the recursive-descent parser that builds the node arena, and the        *)
(* evaluator.  Text is a sequence of bytes; an ASCII byte is the           *)
(* one-character string of that byte.  Offsets are 0-based as in the Go    *)
(* source, so the byte at offset pos of s is s[pos + 1].                   *)
(***************************************************************************)
EXTENDS Integers, Sequences, FiniteSets, TLC

(***************************************************************************)
(* Runes and bytes                                                         *)
(***************************************************************************)

\* the rune next() returns at the end of the input (const eof = -1)
eof == "eof"

\* utf8.RuneError, what decoding an ill-formed byte yields
RuneError == "RuneError"

AsciiDigits == {"0", "1", "2", "3", "4", "5", "6", "7", "8", "9"}

LowerLetters ==
    {"a", "b", "c", "d", "e", "f", "g", "h", "i", "j", "k", "l", "m",
     "n", "o", "p", "q", "r", "s", "t", "u", "v", "w", "x", "y", "z"}

UpperLetters ==
    {"A", "B", "C", "D", "E", "F", "G", "H", "I", "J", "K", "L", "M",
     "N", "O", "P", "Q", "R", "S", "T", "U", "V", "W", "X", "Y", "Z"}

\* The two bytes of U+03BC (the micro sign of "μs") and the rune itself.
MuLead == "xCE"
MuCont == "xBC"
Mu == "mu"

\* The two bytes of U+0663 (ARABIC-INDIC DIGIT THREE) and the rune itself:
\* a digit for unicode.IsDigit that no digit set of the scanners holds.
ArabicLead == "xD9"
ArabicCont == "xA3"
ArabicThree == "arabic3"

\* unicode.IsDigit on the runes of the model
IsDigit(r) == r \in AsciiDigits \cup {ArabicThree}

\* unicode.IsLetter on the runes of the model
IsLetter(r) == r \in LowerLetters \cup UpperLetters \cup {Mu}

\* utf8.DecodeRuneInString(input[pos:]): the rune at byte offset pos and its width
DecodeRune(input, pos) ==
    LET b == input[pos + 1] IN
    IF b = MuLead
    THEN IF pos + 1 < Len(input) /\ input[pos + 2] = MuCont
         THEN [r |-> Mu, w |-> 2]
         ELSE [r |-> RuneError, w |-> 1]
    ELSE IF b = ArabicLead
    THEN IF pos + 1 < Len(input) /\ input[pos + 2] = ArabicCont
         THEN [r |-> ArabicThree, w |-> 2]
         ELSE [r |-> RuneError, w |-> 1]
    ELSE IF b \in {MuCont, ArabicCont}
    THEN [r |-> RuneError, w |-> 1]
    ELSE [r |-> b, w |-> 1]

\* utf8.DecodeLastRuneInString(input[:pos]): the rune that ends at byte offset pos
DecodeLastRune(input, pos) ==
    LET b == input[pos] IN
    IF b = MuCont
    THEN IF pos >= 2 /\ input[pos - 1] = MuLead
         THEN [r |-> Mu, w |-> 2]
         ELSE [r |-> RuneError, w |-> 1]
    ELSE IF b = ArabicCont
    THEN IF pos >= 2 /\ input[pos - 1] = ArabicLead
         THEN [r |-> ArabicThree, w |-> 2]
         ELSE [r |-> RuneError, w |-> 1]
    ELSE IF b \in {MuLead, ArabicLead}
    THEN [r |-> RuneError, w |-> 1]
    ELSE [r |-> b, w |-> 1]

\* max(runewidth.RuneWidth(r), 1): every rune of the model is one cell wide
RuneCells(r) == 1

Max(a, b) == IF a >= b THEN a ELSE b

\* the quote bytes; the backtick byte is written by name
DQuote == "\""
SQuote == "'"
BQuote == "backtick"
Backslash == "\\"

\* input[from:to] of Go: the bytes at offsets from .. to-1
Slice(s, from, to) == IF to <= from THEN <<>> ELSE SubSeq(s, from + 1, to)

(***************************************************************************)
(* Tokens                                                                  *)
(***************************************************************************)

ComparisonOperatorTypes ==
    {"tokenEQ", "tokenEQI", "tokenNEQ", "tokenNEQI", "tokenGT", "tokenGTE",
     "tokenLT", "tokenLTE", "tokenREQ", "tokenREQI", "tokenNREQ", "tokenNREQI"}

isComparisonOperatorType(t) == t \in ComparisonOperatorTypes

isRegexOperatorType(t) == t \in {"tokenREQ", "tokenREQI", "tokenNREQ", "tokenNREQI"}

isCaseInsensitiveRegexOperatorType(t) == t \in {"tokenREQI", "tokenNREQI"}

isValueType(t) ==
    t \in {"tokenString", "tokenRawString", "tokenNumber", "tokenTime",
           "tokenDuration", "tokenBool"}

isStringType(t) == t \in {"tokenString", "tokenRawString"}

BoolLiterals ==
    {<<"f", "a", "l", "s", "e">>, <<"F", "a", "l", "s", "e">>,
     <<"F", "A", "L", "S", "E">>, <<"t", "r", "u", "e">>,
     <<"T", "r", "u", "e">>, <<"T", "R", "U", "E">>}

isBoolLiteral(s) == s \in BoolLiterals

\* a token; v is its text, msg the message of an error token (Go keeps it in v)
token(typ, v, msg, pos, line, col) ==
    [typ |-> typ, v |-> v, msg |-> msg, pos |-> pos, line |-> line, col |-> col]

\* the zero token
NoToken == token("tokenError", <<>>, "", 0, 0, 0)

(***************************************************************************)
(* Lexer                                                                   *)
(***************************************************************************)

newLexer(input) ==
    [input |-> input, state |-> "lexStmt", token |-> NoToken, hasNext |-> FALSE,
     atEOF |-> FALSE, parenDepth |-> 0, pos |-> 0, startPos |-> 0,
     line |-> 1, startLine |-> 1, col |-> 1, startCol |-> 1]

\* lexer.next, past the end check: consumes the decoded rune d
advance(l, d) ==
    [l |-> IF d.r = "\n"
           THEN [l EXCEPT !.pos = @ + d.w, !.line = @ + 1, !.col = 1]
           ELSE [l EXCEPT !.pos = @ + d.w, !.col = @ + RuneCells(d.r)],
     r |-> d.r]

\* lexer.next: the next rune, consumed
lexerNext(l) ==
    IF l.pos >= Len(l.input)
    THEN [l |-> [l EXCEPT !.atEOF = TRUE], r |-> eof]
    ELSE advance(l, DecodeRune(l.input, l.pos))

\* the column of offset pos, counted back to the previous newline (backup's loop)
RECURSIVE ColumnBack(_, _, _)
ColumnBack(input, i, col) ==
    IF i < 0 \/ input[i + 1] = "\n" THEN col ELSE ColumnBack(input, i - 1, col + 1)

\* lexer.backup, past its guard: steps back over the decoded rune d
retreat(l, d) ==
    IF d.r = "\n"
    THEN [l EXCEPT !.pos = @ - d.w, !.line = @ - 1,
                   !.col = ColumnBack(l.input, l.pos - d.w - 1, 1)]
    ELSE [l EXCEPT !.pos = @ - d.w, !.col = Max(@ - RuneCells(d.r), 1)]

\* lexer.backup: steps back one rune, unless the end of input was ever seen
backup(l) ==
    IF ~l.atEOF /\ l.pos > 0 THEN retreat(l, DecodeLastRune(l.input, l.pos)) ELSE l

\* lexer.peek, after its call of next
peeked(n) == [l |-> backup(n.l), r |-> n.r]

\* lexer.peek: next, then backup
lexerPeek(l) == peeked(lexerNext(l))

\* lexer.backupNumber: steps back one byte
backupNumber(l) == [l EXCEPT !.pos = @ - 1, !.col = Max(@ - 1, 1)]

\* lexer.emit: hands the text since startPos to the parser
emit(l, typ) ==
    [l EXCEPT !.token = token(typ, Slice(l.input, l.startPos, l.pos), "",
                              l.startPos, l.startLine, l.startCol),
              !.hasNext = TRUE,
              !.startPos = l.pos, !.startLine = l.line, !.startCol = l.col]

\* lexer.ignore
ignore(l) == [l EXCEPT !.startPos = l.pos, !.startLine = l.line, !.startCol = l.col]

\* lexer.accept, after its call of next
accepted(n, valid) ==
    IF n.r \in valid THEN [l |-> n.l, ok |-> TRUE] ELSE [l |-> backup(n.l), ok |-> FALSE]

\* lexer.accept: consumes the next rune if it is in valid
accept(l, valid) == accepted(lexerNext(l), valid)

\* lexer.acceptRun: consumes a run of runes of valid, n counts them
RECURSIVE acceptRunFrom(_, _, _)
acceptRunRune(x, valid, n) ==
    IF x.r \in valid THEN acceptRunFrom(x.l, valid, n + 1) ELSE [l |-> backup(x.l), n |-> n]

acceptRunFrom(l, valid, n) == acceptRunRune(lexerNext(l), valid, n)

acceptRun(l, valid) == acceptRunFrom(l, valid, 0)

\* lexer.acceptDigits: n digits; the rune that is no digit stays consumed
RECURSIVE acceptDigits(_, _)
acceptDigitsRune(x, n) ==
    IF ~IsDigit(x.r) THEN [l |-> x.l, ok |-> FALSE] ELSE acceptDigits(x.l, n - 1)

acceptDigits(l, n) ==
    IF n = 0 THEN [l |-> l, ok |-> TRUE] ELSE acceptDigitsRune(lexerNext(l), n)

\* errorf, had it returned the running state function instead of nil
errorfResuming(l, msg) ==
    [l EXCEPT !.token = token("tokenError", <<>>, msg, l.startPos, l.startLine, l.startCol),
              !.hasNext = TRUE]

\* lexer.errorf: the error token, and nil as the next state
errorf(l, msg) ==
    [l EXCEPT !.token = token("tokenError", <<>>, msg, l.startPos, l.startLine, l.startCol),
              !.hasNext = TRUE, !.state = "nil"]

\* the state function returns st
goto(l, st) == [l EXCEPT !.state = st]

isSpace(r) == r \in {" ", "\t", "\r", "\n"}

isAlphaNumeric(r) == r = "_" \/ IsLetter(r) \/ IsDigit(r)

\* lexStmt's switch on the rune r, read with the lexer left as m
lexStmtRune(m, r) ==
    CASE r = eof -> goto(m, "lexEOF")
      [] isSpace(r) -> goto(m, "lexSpace")
      [] r = DQuote -> goto(m, "lexDoubleQuotedString")
      [] r = SQuote -> goto(m, "lexSingleQuotedString")
      [] r = BQuote -> goto(m, "lexRawString")
      [] r = "(" -> goto(m, "lexLparen")
      [] r = ")" -> goto(m, "lexRparen")
      [] r = "=" -> goto(m, "lexEQ")
      [] r = "!" -> goto(m, "lexNOT")
      [] r = "<" -> goto(m, "lexLT")
      [] r = ">" -> goto(m, "lexGT")
      [] r = "&" -> goto(m, "lexAND")
      [] r = "|" -> goto(m, "lexOR")
      [] IsDigit(r) \/ r \in {".", "+", "-"} -> goto(m, "lexNumber")
      [] IsLetter(r) \/ r = "_" -> goto(m, "lexKeywordOrIdent")
      [] OTHER -> errorf(m, "unexpected character")

lexStmtNext(n) == lexStmtRune(n.l, n.r)

lexStmt(l) == lexStmtNext(lexerNext(l))

\* lexEOF, had it not looked at the parenthesis counter
lexEOFUnchecked(l) == goto(emit(l, "tokenEOF"), "nil")

lexEOF(l) ==
    IF l.parenDepth < 0 THEN errorf(l, "unexpected right parenthesis")
    ELSE IF l.parenDepth > 0 THEN errorf(l, "unclosed left parenthesis")
    ELSE goto(emit(l, "tokenEOF"), "nil")

RECURSIVE lexSpace(_)
lexSpacePeek(p) ==
    IF isSpace(p.r) THEN lexSpace(lexerNext(p.l).l) ELSE goto(ignore(p.l), "lexStmt")

lexSpace(l) == lexSpacePeek(lexerPeek(l))

\* lexer.scanHexEscape
RECURSIVE scanHexEscape(_, _)
scanHexEscapeRune(x, digits) ==
    IF ~(IsDigit(x.r) \/ x.r \in {"a", "b", "c", "d", "e", "f"}
                      \/ x.r \in {"A", "B", "C", "D", "E", "F"})
    THEN [l |-> x.l, ok |-> FALSE]
    ELSE scanHexEscape(x.l, digits - 1)

scanHexEscape(l, digits) ==
    IF digits = 0 THEN [l |-> l, ok |-> TRUE] ELSE scanHexEscapeRune(lexerNext(l), digits)

\* lexer.scanEscape, its switch on the rune read
scanEscapeRune(x) ==
    CASE x.r \in {"a", "b", "f", "n", "r", "t", "v", Backslash} -> [l |-> x.l, ok |-> TRUE]
      [] x.r \in {DQuote, SQuote} -> [l |-> x.l, ok |-> TRUE]
      [] x.r = "0" -> [l |-> x.l, ok |-> TRUE]
      [] x.r = "x" -> scanHexEscape(x.l, 2)
      [] x.r = "u" -> scanHexEscape(x.l, 4)
      [] OTHER -> [l |-> x.l, ok |-> FALSE]

\* lexer.scanEscape
scanEscape(l) == scanEscapeRune(lexerNext(l))

RECURSIVE lexString(_, _)
\* lexString after scanEscape returned e
lexStringEscape(e, quote) ==
    IF ~e.ok THEN errorf(e.l, "invalid escape sequence in string") ELSE lexString(e.l, quote)

\* lexString's switch on the rune read
lexStringRune(x, quote) ==
    CASE x.r = RuneError -> errorf(x.l, "invalid utf8 encoding in string")
      [] x.r \in {eof, "\n"} -> errorf(x.l, "unterminated quoted string")
      [] x.r = Backslash -> lexStringEscape(scanEscape(x.l), quote)
      [] x.r = quote -> goto(emit(x.l, "tokenString"), "lexStmt")
      [] OTHER -> lexString(x.l, quote)

lexString(l, quote) == lexStringRune(lexerNext(l), quote)

lexDoubleQuotedString(l) == lexString(l, DQuote)

lexSingleQuotedString(l) == lexString(l, SQuote)

RECURSIVE lexRawString(_)
lexRawStringRune(x) ==
    CASE x.r = RuneError -> errorf(x.l, "invalid utf8 encoding in raw string")
      [] x.r = eof -> errorf(x.l, "unterminated raw string")
      [] x.r = BQuote -> goto(emit(x.l, "tokenRawString"), "lexStmt")
      [] OTHER -> lexRawString(x.l)

lexRawString(l) == lexRawStringRune(lexerNext(l))

lexLparen(l) == goto([emit(l, "tokenLparen") EXCEPT !.parenDepth = @ + 1], "lexStmt")

\* lexRparen, had it checked the counter it decrements
lexRparenAtOnce(l) ==
    IF l.parenDepth < 1 THEN errorf(l, "unexpected right parenthesis")
    ELSE goto([emit(l, "tokenRparen") EXCEPT !.parenDepth = @ - 1], "lexStmt")

lexRparen(l) == goto([emit(l, "tokenRparen") EXCEPT !.parenDepth = @ - 1], "lexStmt")

\* the shared tail of lexEQ and lexNOT, on the peek p after the second rune:
\* an optional '*'
starVariantPeek(p, plain, insensitive) ==
    IF p.r = "*"
    THEN goto(emit(lexerNext(p.l).l, insensitive), "lexStmt")
    ELSE goto(emit(p.l, plain), "lexStmt")

starVariant(l, plain, insensitive) ==
    starVariantPeek(lexerPeek(lexerNext(l).l), plain, insensitive)

lexEQPeek(p) ==
    CASE p.r = "=" -> starVariant(p.l, "tokenEQ", "tokenEQI")
      [] p.r = "~" -> starVariant(p.l, "tokenREQ", "tokenREQI")
      [] OTHER -> errorf(lexerPeek(p.l).l, "unexpected character after '='")

lexEQ(l) == lexEQPeek(lexerPeek(l))

lexNOTPeek(p) ==
    CASE p.r = "=" -> starVariant(p.l, "tokenNEQ", "tokenNEQI")
      [] p.r = "~" -> starVariant(p.l, "tokenNREQ", "tokenNREQI")
      [] OTHER -> goto(emit(p.l, "tokenNOT"), "lexStmt")

lexNOT(l) == lexNOTPeek(lexerPeek(l))

\* the shared shape of lexLT and lexGT on the peek p: an optional '='
orEqualPeek(p, plain, orEqual) ==
    IF p.r = "=" THEN goto(emit(lexerNext(p.l).l, orEqual), "lexStmt")
    ELSE goto(emit(p.l, plain), "lexStmt")

lexLT(l) == orEqualPeek(lexerPeek(l), "tokenLT", "tokenLTE")

lexGT(l) == orEqualPeek(lexerPeek(l), "tokenGT", "tokenGTE")

\* the shared shape of lexAND and lexOR on the peek p: the rune must be doubled
doubledPeek(p, r, typ, msg) ==
    IF p.r = r THEN goto(emit(lexerNext(p.l).l, typ), "lexStmt") ELSE errorf(p.l, msg)

lexAND(l) == doubledPeek(lexerPeek(l), "&", "tokenAND", "unexpected character after '&'")

lexOR(l) == doubledPeek(lexerPeek(l), "|", "tokenOR", "unexpected character after '|'")

RECURSIVE lexKeywordOrIdentScan(_)
lexKeywordOrIdentRune(x) ==
    IF ~isAlphaNumeric(x.r) /\ x.r # "_" THEN backup(x.l) ELSE lexKeywordOrIdentScan(x.l)

\* lexKeywordOrIdent's loop
lexKeywordOrIdentScan(l) == lexKeywordOrIdentRune(lexerNext(l))

\* lexKeywordOrIdent after its loop
lexKeywordOrIdentEmit(m) ==
    IF isBoolLiteral(Slice(m.input, m.startPos, m.pos))
    THEN goto(emit(m, "tokenBool"), "lexStmt")
    ELSE goto(emit(m, "tokenIdent"), "lexStmt")

lexKeywordOrIdent(l) == lexKeywordOrIdentEmit(lexKeywordOrIdentScan(l))

\* a chain  a() && b() && ...  of acceptDigits / accept calls, left to right,
\* stopping at the first that fails (Go's short-circuit ||  over the negations)
RECURSIVE acceptChain(_, _, _)
acceptChainStep(x, steps, i) == IF ~x.ok THEN x ELSE acceptChain(x.l, steps, i + 1)

acceptChain(l, steps, i) ==
    IF i > Len(steps) THEN [l |-> l, ok |-> TRUE]
    ELSE acceptChainStep(IF steps[i][1] = "digits" THEN acceptDigits(l, steps[i][2])
                         ELSE accept(l, steps[i][2]),
                         steps, i)

\* YYYY-MM-DD
DateSteps == << <<"digits", 4>>, <<"accept", {"-"}>>, <<"digits", 2>>,
                <<"accept", {"-"}>>, <<"digits", 2>> >>

\* HH:MM:SS
ClockSteps == << <<"digits", 2>>, <<"accept", {":"}>>, <<"digits", 2>>,
                 <<"accept", {":"}>>, <<"digits", 2>> >>

\* HH:MM of a zone
ZoneSteps == << <<"digits", 2>>, <<"accept", {":"}>>, <<"digits", 2>> >>

\* lexer.scanTime: after accept("+-") returned s
scanTimeOffset(s) ==
    IF s.ok THEN acceptChain(s.l, ZoneSteps, 1) ELSE [l |-> s.l, ok |-> TRUE]

\* lexer.scanTime: after accept("Zz") returned z
scanTimeZulu(z) == IF z.ok THEN z ELSE scanTimeOffset(accept(z.l, {"+", "-"}))

\* lexer.scanTime: the optional zone after the seconds
scanTimeZone(l) == scanTimeZulu(accept(l, {"Z", "z"}))

\* lexer.scanTime: the rune after the '.'
scanTimeFractionRune(x) ==
    IF ~IsDigit(x.r) THEN [l |-> x.l, ok |-> FALSE]
    ELSE scanTimeZone(acceptRun(x.l, AsciiDigits).l)

\* lexer.scanTime: after accept(".") returned dot
scanTimeFraction(dot) ==
    IF dot.ok THEN scanTimeFractionRune(lexerNext(dot.l)) ELSE scanTimeZone(dot.l)

\* lexer.scanTime: after the clock was scanned
scanTimeClock(clock) == IF ~clock.ok THEN clock ELSE scanTimeFraction(accept(clock.l, {"."}))

\* lexer.scanTime: after accept("T") returned sep
scanTimeSeparator(sep) ==
    IF ~sep.ok THEN sep ELSE scanTimeClock(acceptChain(sep.l, ClockSteps, 1))

\* lexer.scanTime: after the date was scanned
scanTimeDate(date) == IF ~date.ok THEN date ELSE scanTimeSeparator(accept(date.l, {"T"}))

\* lexer.scanTime
scanTime(l) == scanTimeDate(acceptChain(l, DateSteps, 1))

\* lexer.scanDurationNumber: after acceptRun returned run
scanDurationNumberRun(run, signed) ==
    IF run.n > 0 THEN [l |-> run.l, ok |-> TRUE]
    ELSE IF signed THEN [l |-> backupNumber(run.l), ok |-> FALSE]
    ELSE [l |-> run.l, ok |-> FALSE]

\* lexer.scanDurationNumber: after accept("+-") returned signed
scanDurationNumberSigned(signed) ==
    scanDurationNumberRun(acceptRun(signed.l, AsciiDigits \cup {"."}), signed.ok)

\* lexer.scanDurationNumber
scanDurationNumber(l) == scanDurationNumberSigned(accept(l, {"+", "-"}))

\* scanDuration's  for l.pos > start { l.backupNumber() }
RECURSIVE backupNumberTo(_, _)
backupNumberTo(l, start) ==
    IF l.pos > start THEN backupNumberTo(backupNumber(l), start) ELSE l

\* scanDuration's  if l.accept("s") { found = true }
scanDurationSecond(a) == [l |-> a.l, found |-> a.ok]

\* the unit switch of scanDuration, after the rune r was read
scanDurationUnit(l, r, start) ==
    CASE r \in {"n", "u", Mu} -> scanDurationSecond(accept(l, {"s"}))
      [] r = "m" -> [l |-> accept(l, {"s"}).l, found |-> TRUE]
      [] r \in {"s", "h"} -> [l |-> l, found |-> TRUE]
      [] OTHER -> [l |-> backupNumberTo(l, start), found |-> FALSE]

RECURSIVE scanDurationLoop(_, _)
\* scanDuration: the peek that ends an iteration
scanDurationPeek(p) ==
    IF p.r = eof \/ (~IsDigit(p.r) /\ p.r # ".")
    THEN [l |-> p.l, ok |-> TRUE]
    ELSE scanDurationLoop(p.l, TRUE)

\* scanDuration: after the unit switch returned u
scanDurationFound(u, valid) ==
    IF ~u.found THEN [l |-> u.l, ok |-> valid] ELSE scanDurationPeek(lexerPeek(u.l))

\* scanDuration: the rune after the number
scanDurationRune(x, start, valid) ==
    scanDurationFound(scanDurationUnit(x.l, x.r, start), valid)

\* scanDuration: after scanDurationNumber returned num
scanDurationSegment(num, start, valid) ==
    IF ~num.ok THEN [l |-> num.l, ok |-> valid]
    ELSE scanDurationRune(lexerNext(num.l), start, valid)

\* lexer.scanDuration: the loop over number+unit segments
scanDurationLoop(l, valid) == scanDurationSegment(scanDurationNumber(l), l.pos, valid)

scanDuration(l) == scanDurationLoop(l, FALSE)

DecimalDigits == AsciiDigits \cup {"_"}
HexDigits == AsciiDigits \cup {"a", "b", "c", "d", "e", "f", "A", "B", "C", "D", "E", "F", "_"}
OctalDigits == {"0", "1", "2", "3", "4", "5", "6", "7", "_"}
BinaryDigits == {"0", "1", "_"}

\* scanNumber's exponent, after accept(marks) returned e:
\* accept("+-"); acceptRun(decimal digits)
scanExponentMark(e) ==
    IF e.ok THEN acceptRun(accept(e.l, {"+", "-"}).l, DecimalDigits).l ELSE e.l

scanExponent(l, marks) == scanExponentMark(accept(l, marks))

\* lexer.scanNumber: the exponent, decimal (e) or hexadecimal (p)
scanNumberExponent(l, digits) ==
    [l |-> CASE digits = DecimalDigits -> scanExponent(l, {"e", "E"})
             [] digits = HexDigits -> scanExponent(l, {"p", "P"})
             [] OTHER -> l,
     ok |-> TRUE]

\* lexer.scanNumber: after accept(".") returned dot
scanNumberFraction(dot, digits) ==
    scanNumberExponent(IF dot.ok THEN acceptRun(dot.l, digits).l ELSE dot.l, digits)

\* lexer.scanNumber: the digits of the chosen base
scanNumberDigits(l, digits) ==
    scanNumberFraction(accept(acceptRun(l, digits).l, {"."}), digits)

\* lexer.scanNumber: after accept("bB") returned bin
scanNumberBinary(bin) ==
    scanNumberDigits(bin.l, IF bin.ok THEN BinaryDigits ELSE DecimalDigits)

\* lexer.scanNumber: after accept("oO") returned oct
scanNumberOctal(oct) ==
    IF oct.ok THEN scanNumberDigits(oct.l, OctalDigits)
    ELSE scanNumberBinary(accept(oct.l, {"b", "B"}))

\* lexer.scanNumber: after accept("xX") returned hex
scanNumberHex(hex) ==
    IF hex.ok THEN scanNumberDigits(hex.l, HexDigits)
    ELSE scanNumberOctal(accept(hex.l, {"o", "O"}))

\* lexer.scanNumber: after accept("0") returned zero
scanNumberZero(zero) ==
    IF zero.ok THEN scanNumberHex(accept(zero.l, {"x", "X"}))
    ELSE scanNumberDigits(zero.l, DecimalDigits)

\* lexer.scanNumber
scanNumber(l) == scanNumberZero(accept(accept(l, {"+", "-"}).l, {"0"}))

\* lexNumber's  l.pos = pos; l.line = line; l.col = col; l.backup()
rewind(l, at) == backup([l EXCEPT !.pos = at.pos, !.line = at.line, !.col = at.col])

\* lexNumber: after scanNumber returned n
lexNumberNumber(n) ==
    IF n.ok THEN goto(emit(n.l, "tokenNumber"), "lexStmt") ELSE goto(n.l, "lexStmt")

\* lexNumber: after scanDuration returned d
lexNumberDuration(d, at) ==
    IF d.ok THEN goto(emit(d.l, "tokenDuration"), "lexStmt")
    ELSE lexNumberNumber(scanNumber(rewind(d.l, at)))

\* lexNumber: after scanTime returned t
lexNumberTime(t, at) ==
    IF t.ok THEN goto(emit(t.l, "tokenTime"), "lexStmt")
    ELSE lexNumberDuration(scanDuration(rewind(t.l, at)), at)

lexNumber(l) == lexNumberTime(scanTime(backup(l)), l)

\* l.state(l): one run of the current state function
runState(l) ==
    CASE l.state = "lexStmt" -> lexStmt(l)
      [] l.state = "lexEOF" -> lexEOF(l)
      [] l.state = "lexSpace" -> lexSpace(l)
      [] l.state = "lexDoubleQuotedString" -> lexDoubleQuotedString(l)
      [] l.state = "lexSingleQuotedString" -> lexSingleQuotedString(l)
      [] l.state = "lexRawString" -> lexRawString(l)
      [] l.state = "lexLparen" -> lexLparen(l)
      [] l.state = "lexRparen" -> lexRparen(l)
      [] l.state = "lexEQ" -> lexEQ(l)
      [] l.state = "lexNOT" -> lexNOT(l)
      [] l.state = "lexLT" -> lexLT(l)
      [] l.state = "lexGT" -> lexGT(l)
      [] l.state = "lexAND" -> lexAND(l)
      [] l.state = "lexOR" -> lexOR(l)
      [] l.state = "lexNumber" -> lexNumber(l)
      [] l.state = "lexKeywordOrIdent" -> lexKeywordOrIdent(l)

\* lexer.nextToken: runs state functions until a token is pending
RECURSIVE nextToken(_)
nextToken(l) ==
    IF l.hasNext THEN [l |-> [l EXCEPT !.hasNext = FALSE], t |-> l.token]
    ELSE IF l.state = "nil"
    THEN [l |-> l, t |-> token("tokenEOF", <<>>, "", l.pos, l.line, l.col)]
    ELSE nextToken(runState(l))

(***************************************************************************)
(* Host conversions: strconv.ParseFloat and float64 arithmetic             *)
(*                                                                         *)
(* A finite float64 of the model is q/4 + u * 2^-31 with q and u integers  *)
(* of small magnitude: such values, their sums and their differences are   *)
(* exact in float64, so the arithmetic below is the arithmetic of the      *)
(* machine.  NaN and the infinities are values of their own.               *)
(***************************************************************************)

Fin(q, u) == [k |-> "fin", q |-> q, u |-> u]
NaN == [k |-> "nan", q |-> 0, u |-> 0]
Inf(sign) == [k |-> "inf", q |-> sign, u |-> 0]

\* Epsilon = 1e-9 in units of 2^-31:  2 * 2^-31 < 1e-9 < 3 * 2^-31
Epsilon == 2

Abs(n) == IF n < 0 THEN -n ELSE n

\* float64 subtraction
FSub(a, b) ==
    CASE a.k = "nan" \/ b.k = "nan" -> NaN
      [] a.k = "inf" /\ b.k = "inf" -> IF a.q = b.q THEN NaN ELSE a
      [] a.k = "inf" -> a
      [] b.k = "inf" -> Inf(-b.q)
      [] a.k = "fin" /\ b.k = "fin" -> Fin(a.q - b.q, a.u - b.u)

\* math.Abs
FAbs(a) ==
    CASE a.k = "nan" -> NaN
      [] a.k = "inf" -> Inf(1)
      [] a.k = "fin" -> IF a.q < 0 \/ (a.q = 0 /\ a.u < 0) THEN Fin(-a.q, -a.u) ELSE a

\* a < b on float64: false whenever an operand is NaN
FLess(a, b) ==
    CASE a.k = "nan" \/ b.k = "nan" -> FALSE
      [] a.k = "inf" /\ b.k = "inf" -> a.q < b.q
      [] a.k = "inf" -> a.q < 0
      [] b.k = "inf" -> b.q > 0
      [] a.k = "fin" /\ b.k = "fin" -> a.q < b.q \/ (a.q = b.q /\ a.u < b.u)

\* a == b on float64
FEqual(a, b) ==
    CASE a.k = "nan" \/ b.k = "nan" -> FALSE
      [] a.k = "inf" \/ b.k = "inf" -> a = b
      [] a.k = "fin" /\ b.k = "fin" -> a.q = b.q /\ a.u = b.u

\* d <= Epsilon and d > Epsilon for a float64 d >= 0 (or NaN)
FLeqEpsilon(d) ==
    CASE d.k \in {"nan", "inf"} -> FALSE
      [] d.k = "fin" -> d.q = 0 /\ d.u <= Epsilon

FGtEpsilon(d) ==
    CASE d.k = "nan" -> FALSE
      [] d.k = "inf" -> TRUE
      [] d.k = "fin" -> d.q # 0 \/ d.u > Epsilon

DigitValue(c) ==
    CASE c = "0" -> 0 [] c = "1" -> 1 [] c = "2" -> 2 [] c = "3" -> 3 [] c = "4" -> 4
      [] c = "5" -> 5 [] c = "6" -> 6 [] c = "7" -> 7 [] c = "8" -> 8 [] c = "9" -> 9

\* the decimal value of the digits of s, skipping underscores
RECURSIVE DigitsValue(_, _)
DigitsValue(s, acc) ==
    IF s = <<>> THEN acc
    ELSE IF Head(s) = "_" THEN DigitsValue(Tail(s), acc)
    ELSE DigitsValue(Tail(s), 10 * acc + DigitValue(Head(s)))

RECURSIVE Pow10(_)
Pow10(n) == IF n = 0 THEN 1 ELSE 10 * Pow10(n - 1)

\* the number of digits in s
CountDigits(s) == Cardinality({i \in 1..Len(s) : s[i] \in AsciiDigits})

\* lower() of strconv on the letters that matter to ParseFloat
Lower(c) ==
    CASE c = "I" -> "i" [] c = "N" -> "n" [] c = "F" -> "f" [] c = "T" -> "t"
      [] c = "Y" -> "y" [] c = "A" -> "a" [] c = "E" -> "e" [] c = "X" -> "x"
      [] c = "P" -> "p" [] c = "B" -> "b" [] c = "O" -> "o" [] OTHER -> c

LowerAll(s) == [i \in 1..Len(s) |-> Lower(s[i])]

\* the end (an offset) of the longest run of runes of set in s from offset i
RECURSIVE RunEnd(_, _, _)
RunEnd(s, i, set) == IF i < Len(s) /\ s[i + 1] \in set THEN RunEnd(s, i + 1, set) ELSE i

\* strconv's underscoreOK on decimal text: an underscore only between two digits
underscoreOK(s) ==
    \A i \in 1..Len(s) :
        s[i] = "_" => (i > 1 /\ i < Len(s) /\ s[i - 1] \in AsciiDigits /\ s[i + 1] \in AsciiDigits)

\* strconv's special: the infinities, with an optional sign, and NaN, without
special(s) ==
    LET signed == s # <<>> /\ Head(s) \in {"+", "-"}
        body == LowerAll(IF signed THEN Tail(s) ELSE s)
    IN IF body \in {<<"i", "n", "f">>, <<"i", "n", "f", "i", "n", "i", "t", "y">>}
       THEN [ok |-> TRUE, f |-> Inf(IF signed /\ Head(s) = "-" THEN -1 ELSE 1)]
       ELSE IF ~signed /\ body = <<"n", "a", "n">> THEN [ok |-> TRUE, f |-> NaN]
       ELSE [ok |-> FALSE, f |-> Fin(0, 0)]

\* mant * 10^shift as a float64 of the model: the value is held when it is a
\* multiple of 1/4, and the model has no float64 for it otherwise
decimalValue(neg, mant, shift) ==
    IF shift >= 0
    THEN Fin((IF neg THEN -1 ELSE 1) * 4 * mant * Pow10(shift), 0)
    ELSE IF (4 * mant) % Pow10(-shift) = 0
    THEN Fin((IF neg THEN -1 ELSE 1) * ((4 * mant) \div Pow10(-shift)), 0)
    ELSE [k |-> "unmodelled", q |-> 0, u |-> 0]

sawDot(s, i) == i < Len(s) /\ s[i + 1] = "."

sawExp(s, i) == i < Len(s) /\ s[i + 1] \in {"e", "E"}

\* readFloat: the checks at the end i4 of the text read, and the value.  whole
\* and frac are the digits around the '.', the exponent starts after offset i2
\* and its digits at offset i3
readFloatEnd(s, whole, frac, i2, i3, i4) ==
    IF \/ CountDigits(whole) + CountDigits(frac) = 0
       \/ (sawExp(s, i2) /\ ~(i3 < Len(s) /\ s[i3 + 1] \in AsciiDigits))
       \/ ~underscoreOK(Slice(s, 0, i4))
    THEN [ok |-> FALSE, n |-> 0, f |-> Fin(0, 0)]
    ELSE [ok |-> TRUE, n |-> i4,
          f |-> decimalValue(Head(s) = "-", DigitsValue(whole \o frac, 0),
                             (IF ~sawExp(s, i2) THEN 0
                              ELSE IF s[i2 + 2] = "-" THEN -DigitsValue(Slice(s, i3, i4), 0)
                              ELSE DigitsValue(Slice(s, i3, i4), 0)) - CountDigits(frac))]

\* readFloat: the exponent, from the offset i3 of its digits
readFloatExponentDigits(s, whole, frac, i2, i3) ==
    readFloatEnd(s, whole, frac, i2, i3, IF sawExp(s, i2) THEN RunEnd(s, i3, DecimalDigits) ELSE i2)

\* readFloat: the exponent mark and its sign, after the mantissa ended at i2
readFloatExponent(s, whole, frac, i2) ==
    readFloatExponentDigits(s, whole, frac, i2,
        IF sawExp(s, i2) /\ i2 + 1 < Len(s) /\ s[i2 + 2] \in {"+", "-"} THEN i2 + 2 ELSE i2 + 1)

\* readFloat: the fraction, after the whole digits ended at i1
readFloatFraction(s, i0, i1) ==
    IF sawDot(s, i1)
    THEN readFloatExponent(s, Slice(s, i0, i1), Slice(s, i1 + 1, RunEnd(s, i1 + 1, DecimalDigits)),
                           RunEnd(s, i1 + 1, DecimalDigits))
    ELSE readFloatExponent(s, Slice(s, i0, i1), <<>>, i1)

\* readFloat: the digits, after an optional sign of length i0
readFloatDigits(s, i0) == readFloatFraction(s, i0, RunEnd(s, i0, DecimalDigits))

\* strconv's readFloat on decimal text, and the value of what it read.
\* Hexadecimal floats are not among the texts of the model.
readFloat(s) ==
    IF s = <<>> THEN [ok |-> FALSE, n |-> 0, f |-> Fin(0, 0)]
    ELSE readFloatDigits(s, IF Head(s) \in {"+", "-"} THEN 1 ELSE 0)

\* ParseFloat: after readFloat returned r
parseFloatRead(r, s) ==
    IF r.ok /\ r.n = Len(s) THEN [ok |-> TRUE, f |-> r.f] ELSE [ok |-> FALSE, f |-> Fin(0, 0)]

\* ParseFloat: after special returned sp
parseFloatSpecial(sp, s) == IF sp.ok THEN sp ELSE parseFloatRead(readFloat(s), s)

\* strconv.ParseFloat(s, 64): the whole of s has to be a number
ParseFloat(s) == parseFloatSpecial(special(s), s)

(***************************************************************************)
(* Host conversions: time.ParseDuration                                    *)
(*                                                                         *)
(* A time.Duration (an int64 of nanoseconds) is [s, ns]: s whole seconds   *)
(* and 0 <= ns < 10^9 nanoseconds, so -1ns is [s |-> -1, ns |-> 999999999].*)
(***************************************************************************)

NanosPerSecond == 1000000000

Dur(s, ns) == [s |-> s, ns |-> ns]

\* the duration of n nanoseconds, n of either sign
DurOfNanos(n) ==
    IF n >= 0 THEN Dur(n \div NanosPerSecond, n % NanosPerSecond)
    ELSE IF (-n) % NanosPerSecond = 0 THEN Dur(-((-n) \div NanosPerSecond), 0)
    ELSE Dur(-((-n) \div NanosPerSecond) - 1, NanosPerSecond - ((-n) % NanosPerSecond))

DurAdd(a, b) ==
    IF a.ns + b.ns - NanosPerSecond >= 0
    THEN Dur(a.s + b.s + 1, a.ns + b.ns - NanosPerSecond)
    ELSE Dur(a.s + b.s, a.ns + b.ns)

DurNeg(a) == IF a.ns = 0 THEN Dur(-a.s, 0) ELSE Dur(-a.s - 1, NanosPerSecond - a.ns)

DurLess(a, b) == a.s < b.s \/ (a.s = b.s /\ a.ns < b.ns)

\* time's unitMap: a unit is whole seconds, or nanoseconds below a second
unitMap(u) ==
    CASE u = <<"n", "s">> -> [ok |-> TRUE, s |-> 0, ns |-> 1]
      [] u = <<"u", "s">> -> [ok |-> TRUE, s |-> 0, ns |-> 1000]
      [] u = <<MuLead, MuCont, "s">> -> [ok |-> TRUE, s |-> 0, ns |-> 1000]
      [] u = <<"m", "s">> -> [ok |-> TRUE, s |-> 0, ns |-> 1000000]
      [] u = <<"s">> -> [ok |-> TRUE, s |-> 1, ns |-> 0]
      [] u = <<"m">> -> [ok |-> TRUE, s |-> 60, ns |-> 0]
      [] u = <<"h">> -> [ok |-> TRUE, s |-> 3600, ns |-> 0]
      [] OTHER -> [ok |-> FALSE, s |-> 0, ns |-> 0]

\* v * unit + f * unit / scale of ParseDuration, f the fraction digits read as a
\* number and scale = 10^k
segmentValue(v, f, k, unit) ==
    IF unit.s = 0
    THEN DurAdd(DurOfNanos(v * unit.ns), DurOfNanos((f * unit.ns) \div Pow10(k)))
    ELSE DurAdd(Dur(v * unit.s, 0),
                Dur((f * unit.s) \div Pow10(k), ((f * unit.s) % Pow10(k)) * Pow10(9 - k)))

\* the end of the unit that starts at offset i: the next '.' or digit
RECURSIVE UnitEnd(_, _)
UnitEnd(s, i) ==
    IF i < Len(s) /\ s[i + 1] \notin AsciiDigits \cup {"."} THEN UnitEnd(s, i + 1) ELSE i

RECURSIVE parseDurationFrom(_, _, _)
\* ParseDuration: one segment checked and added.  The digits before the '.'
\* are s[i..i1), those after it s[i1+1..i2), the unit s[i2..i3)
parseDurationSegment(s, i, i1, i2, i3, unit, d) ==
    IF \/ (i1 = i /\ ~(sawDot(s, i1) /\ i2 # i1 + 1))
       \/ i3 = i2
       \/ ~unit.ok
    THEN [ok |-> FALSE, d |-> d]
    ELSE parseDurationFrom(s, i3,
            DurAdd(d, segmentValue(DigitsValue(Slice(s, i, i1), 0),
                                   IF sawDot(s, i1) THEN DigitsValue(Slice(s, i1 + 1, i2), 0) ELSE 0,
                                   IF sawDot(s, i1) THEN i2 - (i1 + 1) ELSE 0,
                                   unit)))

\* ParseDuration: the unit, after the number ended at i2
parseDurationUnit(s, i, i1, i2, i3, d) ==
    parseDurationSegment(s, i, i1, i2, i3, unitMap(Slice(s, i2, i3)), d)

\* ParseDuration: the fraction, after the whole digits ended at i1
parseDurationFraction(s, i, i1, i2, d) == parseDurationUnit(s, i, i1, i2, UnitEnd(s, i2), d)

\* ParseDuration: the whole digits, from offset i
parseDurationDigits(s, i, i1, d) ==
    parseDurationFraction(s, i, i1,
                          IF sawDot(s, i1) THEN RunEnd(s, i1 + 1, AsciiDigits) ELSE i1, d)

\* ParseDuration's loop over  [0-9]*(\.[0-9]*)?unit  from offset i, d the sum so far
parseDurationFrom(s, i, d) ==
    IF i >= Len(s) THEN [ok |-> TRUE, d |-> d]
    ELSE IF s[i + 1] \notin AsciiDigits \cup {"."} THEN [ok |-> FALSE, d |-> d]
    ELSE parseDurationDigits(s, i, RunEnd(s, i, AsciiDigits), d)

\* ParseDuration: after the loop returned r
parseDurationSigned(r, neg) ==
    IF ~r.ok THEN [ok |-> FALSE, d |-> Dur(0, 0)]
    ELSE [ok |-> TRUE, d |-> IF neg THEN DurNeg(r.d) ELSE r.d]

\* ParseDuration: the text after the sign
parseDurationBody(body, neg) ==
    IF body = <<"0">> THEN [ok |-> TRUE, d |-> Dur(0, 0)]
    ELSE IF body = <<>> THEN [ok |-> FALSE, d |-> Dur(0, 0)]
    ELSE parseDurationSigned(parseDurationFrom(body, 0, Dur(0, 0)), neg)

\* time.ParseDuration
ParseDuration(s) ==
    IF s # <<>> /\ Head(s) \in {"+", "-"}
    THEN parseDurationBody(Tail(s), Head(s) = "-")
    ELSE parseDurationBody(s, FALSE)

(***************************************************************************)
(* Host conversions: time.Parse(time.RFC3339, s)                           *)
(*                                                                         *)
(* A time.Time is the instant [d, s, ns]: d days since 1970-01-01, s the   *)
(* second of that day and ns the nanosecond of that second, all in UTC.    *)
(***************************************************************************)

SecondsPerDay == 86400

Instant(d, s, ns) == [d |-> d, s |-> s, ns |-> ns]

isLeap(y) == y % 4 = 0 /\ (y % 100 # 0 \/ y % 400 = 0)

\* time's daysIn
daysIn(m, y) ==
    IF m = 2 THEN (IF isLeap(y) THEN 29 ELSE 28)
    ELSE IF m \in {4, 6, 9, 11} THEN 30 ELSE 31

\* the days from 1970-01-01 to y-m-d of the proleptic Gregorian calendar
daysFromCivil(y, m, d) ==
    LET yy == IF m <= 2 THEN y - 1 ELSE y
        era == IF yy >= 0 THEN yy \div 400 ELSE -((399 - yy) \div 400)
        yoe == yy - era * 400
        doy == (153 * (IF m > 2 THEN m - 3 ELSE m + 9) + 2) \div 5 + d - 1
        doe == yoe * 365 + yoe \div 4 - yoe \div 100 + doy
    IN era * 146097 + doe - 719468

\* Time.addSec(-zoneOffset) on an instant
shiftSeconds(t, delta) ==
    LET total == t.s + delta
        days == IF total >= 0 THEN total \div SecondsPerDay
                ELSE -((SecondsPerDay - 1 - total) \div SecondsPerDay)
    IN Instant(t.d + days, total - days * SecondsPerDay, t.ns)

InstantLess(a, b) ==
    a.d < b.d \/ (a.d = b.d /\ (a.s < b.s \/ (a.s = b.s /\ a.ns < b.ns)))

allDigits(s) == \A i \in 1..Len(s) : s[i] \in AsciiDigits

\* parseRFC3339's parseUint: the number s spells when it is within min .. max
inRange(s, min, max) ==
    allDigits(s) /\ DigitsValue(s, 0) >= min /\ DigitsValue(s, 0) <= max

\* parseNanoseconds: the first nine fraction digits, as nanoseconds
nanoseconds(digits) ==
    IF Len(digits) >= 9 THEN DigitsValue(SubSeq(digits, 1, 9), 0)
    ELSE DigitsValue(digits, 0) * Pow10(9 - Len(digits))

\* the zone of an RFC 3339 time: "Z", or an offset  +hh:mm  /  -hh:mm
parseZone(z) ==
    IF z = <<"Z">> THEN [ok |-> TRUE, offset |-> 0]
    ELSE IF Len(z) = 6 /\ z[1] \in {"+", "-"} /\ z[4] = ":"
            /\ inRange(SubSeq(z, 2, 3), 0, 23) /\ inRange(SubSeq(z, 5, 6), 0, 59)
    THEN LET secs == (DigitsValue(SubSeq(z, 2, 3), 0) * 60 + DigitsValue(SubSeq(z, 5, 6), 0)) * 60
         IN [ok |-> TRUE, offset |-> IF z[1] = "-" THEN -secs ELSE secs]
    ELSE [ok |-> FALSE, offset |-> 0]

\* time.Parse(time.RFC3339, s): the date and the clock in range, an optional
\* fraction of the second, and a zone, which is not optional
ParseTime(s) ==
    LET bad == [ok |-> FALSE, t |-> Instant(0, 0, 0)] IN
    IF Len(s) < 19 THEN bad
    ELSE IF ~(s[5] = "-" /\ s[8] = "-" /\ s[11] = "T" /\ s[14] = ":" /\ s[17] = ":") THEN bad
    ELSE IF ~(inRange(SubSeq(s, 1, 4), 0, 9999) /\ inRange(SubSeq(s, 6, 7), 1, 12)) THEN bad
    ELSE LET year == DigitsValue(SubSeq(s, 1, 4), 0)
             month == DigitsValue(SubSeq(s, 6, 7), 0)
             fracEnd == IF Len(s) >= 21 /\ s[20] = "." /\ s[21] \in AsciiDigits
                        THEN RunEnd(s, 20, AsciiDigits) ELSE 19
             nsec == IF fracEnd > 19 THEN nanoseconds(Slice(s, 20, fracEnd)) ELSE 0
             zone == parseZone(Slice(s, fracEnd, Len(s)))
         IN IF ~(inRange(SubSeq(s, 9, 10), 1, daysIn(month, year))
                 /\ inRange(SubSeq(s, 12, 13), 0, 23) /\ inRange(SubSeq(s, 15, 16), 0, 59)
                 /\ inRange(SubSeq(s, 18, 19), 0, 59) /\ zone.ok)
            THEN bad
            ELSE [ok |-> TRUE,
                  t |-> shiftSeconds(
                          Instant(daysFromCivil(year, month, DigitsValue(SubSeq(s, 9, 10), 0)),
                                  (DigitsValue(SubSeq(s, 12, 13), 0) * 60
                                     + DigitsValue(SubSeq(s, 15, 16), 0)) * 60
                                     + DigitsValue(SubSeq(s, 18, 19), 0),
                                  nsec),
                          -zone.offset)]

(***************************************************************************)
(* Host library: regexp                                                    *)
(*                                                                         *)
(* The patterns of the model are a run of literal runes and '.', with an   *)
(* optional leading "(?i)", an optional '^' in front and an optional '$'   *)
(* at the end; a pattern that opens with a repetition operator or leaves a *)
(* group or a class open does not compile.                                 *)
(***************************************************************************)

\* no compiled regex: the nil *regexp.Regexp
NoRegexp == [src |-> <<>>, compiled |-> FALSE]

CaseMarker == <<"(", "?", "i", ")">>

hasCaseMarker(pat) == Len(pat) >= 4 /\ SubSeq(pat, 1, 4) = CaseMarker

\* the pattern without its leading (?i) markers
RECURSIVE patternBody(_)
patternBody(pat) == IF hasCaseMarker(pat) THEN patternBody(SubSeq(pat, 5, Len(pat))) ELSE pat

countOf(s, c) == Cardinality({i \in 1..Len(s) : s[i] = c})

\* regexp.Compile: whether pat compiles, and the compiled regex
Compile(pat) ==
    LET body == patternBody(pat)
        broken == \/ (body # <<>> /\ Head(body) \in {"*", "+", "?"})
                  \/ countOf(body, "(") # countOf(body, ")")
                  \/ countOf(body, "[") > countOf(body, "]")
                  \/ (body # <<>> /\ body[Len(body)] = Backslash
                        /\ (Len(body) = 1 \/ body[Len(body) - 1] # Backslash))
    IN IF broken THEN [ok |-> FALSE, re |-> NoRegexp]
       ELSE [ok |-> TRUE, re |-> [src |-> pat, compiled |-> TRUE]]

\* simple case folding of the letters of the model
Fold(c) ==
    CASE c = "A" -> "a" [] c = "B" -> "b" [] c = "C" -> "c" [] c = "D" -> "d"
      [] c = "E" -> "e" [] c = "F" -> "f" [] c = "G" -> "g" [] c = "H" -> "h"
      [] c = "I" -> "i" [] c = "J" -> "j" [] c = "K" -> "k" [] c = "L" -> "l"
      [] c = "M" -> "m" [] c = "N" -> "n" [] c = "O" -> "o" [] c = "P" -> "p"
      [] c = "Q" -> "q" [] c = "R" -> "r" [] c = "S" -> "s" [] c = "T" -> "t"
      [] c = "U" -> "u" [] c = "V" -> "v" [] c = "W" -> "w" [] c = "X" -> "x"
      [] c = "Y" -> "y" [] c = "Z" -> "z" [] OTHER -> c

\* strings.EqualFold
EqualFold(a, b) == Len(a) = Len(b) /\ \A i \in 1..Len(a) : Fold(a[i]) = Fold(b[i])

PatternMeta == {"(", ")", "[", "]", "*", "+", "?", "{", "}", "|", "^", "$", Backslash}

anchoredFront(body) == body # <<>> /\ Head(body) = "^"

withoutFront(body) == IF anchoredFront(body) THEN Tail(body) ELSE body

anchoredBack(rest) == rest # <<>> /\ rest[Len(rest)] = "$"

withoutBack(rest) == IF anchoredBack(rest) THEN SubSeq(rest, 1, Len(rest) - 1) ELSE rest

\* the rune c of the text against the atom a of the pattern
hit(c, a, fold) == (a = "." /\ c # "\n") \/ (IF fold THEN Fold(c) = Fold(a) ELSE c = a)

\* the atoms match v from offset o on
matchAt(atoms, v, o, fold) ==
    o + Len(atoms) <= Len(v) /\ \A i \in 1..Len(atoms) : hit(v[o + i], atoms[i], fold)

\* the atoms of the pattern match v somewhere, at the front under '^' and up to
\* the end under '$'
matchAtoms(atoms, v, fold, front, back) ==
    CASE \A i \in 1..Len(atoms) : atoms[i] \notin PatternMeta ->
            \E o \in 0..Len(v) : /\ matchAt(atoms, v, o, fold)
                                 /\ (front => o = 0)
                                 /\ (back => o + Len(atoms) = Len(v))

matchBody(body, v, fold) ==
    matchAtoms(withoutBack(withoutFront(body)), v, fold,
               anchoredFront(body), anchoredBack(withoutFront(body)))

\* Regexp.MatchString
MatchString(re, v) ==
    CASE re.compiled -> matchBody(patternBody(re.src), v, hasCaseMarker(re.src))

(***************************************************************************)
(* Errors and nodes                                                        *)
(***************************************************************************)

\* a *FilterError: its kind and the text of the wrapped error
FilterError(kind, msg) == [kind |-> kind, msg |-> msg]

\* the nil error
NoError == FilterError("nil", "")

\* MaxParen is the maximum number of opening '(' tokens allowed in one expression
MaxParen == 256

\* a node of the arena; the fields a constructor does not set hold zero values
node(typ, left, right, ident, op, val) ==
    [typ |-> typ, left |-> left, right |-> right, ident |-> ident, op |-> op, val |-> val,
     re |-> NoRegexp, num |-> Fin(0, 0), dur |-> Dur(0, 0), time |-> Instant(0, 0, 0),
     hasNum |-> FALSE, hasDur |-> FALSE, hasTime |-> FALSE]

\* newNodeBinary, had it taken the index of the new node for its left operand
newNodeBinaryOfItself(p, left, op, right) ==
    [p |-> [p EXCEPT !.nodes = Append(@, node("nodeBinary", Len(p.nodes), right, NoToken, op,
                                              NoToken))],
     n |-> Len(p.nodes)]

\* newNodeBinary: appends the node; n is its index
newNodeBinary(p, left, op, right) ==
    [p |-> [p EXCEPT !.nodes = Append(@, node("nodeBinary", left, right, NoToken, op, NoToken))],
     n |-> Len(p.nodes)]

\* newNodeNOT
newNodeNOT(p, child, op) ==
    [p |-> [p EXCEPT !.nodes = Append(@, node("nodeNOT", child, 0, NoToken, op, NoToken))],
     n |-> Len(p.nodes)]

\* newNodeComparison
newNodeComparison(p, ident, op, val) ==
    [p |-> [p EXCEPT !.nodes = Append(@, node("nodeComparison", 0, 0, ident, op, val))],
     n |-> Len(p.nodes)]

(***************************************************************************)
(* Parser: the token layer and parseComparison                             *)
(***************************************************************************)

\* newParser, for a non-empty input
newParser(input) ==
    [lexer |-> newLexer(input), nodes |-> <<>>, current |-> NoToken, peeked |-> FALSE,
     parenCount |-> 0, idents |-> {}]

\* a next() that returns an error token like any other token
lexErrorIgnored(t) == NoError

\* the error next() returns with the token t
lexErrorOf(t) == IF t.typ = "tokenError" THEN FilterError("KindLex", t.msg) ELSE NoError

\* parser.next / parser.peek: p.current = p.lexer.nextToken()
fetched(p, x, asPeek) == [p EXCEPT !.lexer = x.l, !.current = x.t, !.peeked = asPeek]

\* the (token, error) next returns from the parser q
nextResult(q) == [p |-> q, t |-> q.current, err |-> lexErrorOf(q.current)]

\* parser.next
parserNext(p) ==
    IF p.peeked THEN nextResult([p EXCEPT !.peeked = FALSE])
    ELSE nextResult(fetched(p, nextToken(p.lexer), FALSE))

\* the token peek returns from the parser q
peekResult(q) == [p |-> q, t |-> q.current]

\* parser.peek
parserPeek(p) ==
    IF ~p.peeked THEN peekResult(fetched(p, nextToken(p.lexer), TRUE)) ELSE peekResult(p)

\* parser.expect, after its call of next
expected(x, typ) ==
    IF x.err # NoError THEN x
    ELSE IF x.t.typ # typ THEN [x EXCEPT !.err = FilterError("KindParse", "expected token")]
    ELSE x

\* parser.expect
expect(p, typ) == expected(parserNext(p), typ)

\* unquote: the text of a string token without its first and last byte
unquote(t) ==
    IF isStringType(t.typ) /\ Len(t.v) >= 2 THEN SubSeq(t.v, 2, Len(t.v) - 1) ELSE t.v

\* parser.handleRegex, after regexp.Compile returned c
\* handleRegex after regexp.Compile, had it stored the regex in the cache only
handleRegexCachedOnly(p, rm, t, i, c) ==
    IF ~c.ok THEN [p |-> p, rm |-> rm, err |-> FilterError("KindParse", "invalid regex")]
    ELSE [p |-> p,
          rm |-> [x \in DOMAIN rm \cup {t.v} |-> IF x = t.v THEN c.re ELSE rm[x]],
          err |-> NoError]

handleRegexCompiled(p, rm, t, i, c) ==
    IF ~c.ok THEN [p |-> p, rm |-> rm, err |-> FilterError("KindParse", "invalid regex")]
    ELSE [p |-> [p EXCEPT !.nodes[i + 1].re = c.re],
          rm |-> [x \in DOMAIN rm \cup {t.v} |-> IF x = t.v THEN c.re ELSE rm[x]],
          err |-> NoError]

\* parser.handleRegex: the regex of node i, from the cache rm or compiled and stored
handleRegex(p, rm, t, i) ==
    IF t.v = <<>>
    THEN [p |-> p, rm |-> rm, err |-> FilterError("KindParse", "invalid regex: empty pattern")]
    ELSE IF t.v \in DOMAIN rm
    THEN [p |-> [p EXCEPT !.nodes[i + 1].re = rm[t.v]], rm |-> rm, err |-> NoError]
    ELSE handleRegexCompiled(p, rm, t, i, Compile(t.v))

\* parseComparison's eager conversions of the literal of node i: each stores
\* its value when the conversion succeeded
storeTime(p, i, t) ==
    IF t.ok THEN [p EXCEPT !.nodes[i + 1].time = t.t, !.nodes[i + 1].hasTime = TRUE] ELSE p

storeDuration(p, i, d) ==
    IF d.ok THEN [p EXCEPT !.nodes[i + 1].dur = d.d, !.nodes[i + 1].hasDur = TRUE] ELSE p

storeNumber(p, i, f) ==
    IF f.ok THEN [p EXCEPT !.nodes[i + 1].num = f.f, !.nodes[i + 1].hasNum = TRUE] ELSE p

preparse(p, val, i) ==
    CASE val.typ = "tokenTime" -> storeTime(p, i, ParseTime(val.v))
      [] val.typ = "tokenDuration" -> storeDuration(p, i, ParseDuration(val.v))
      [] val.typ = "tokenNumber" -> storeNumber(p, i, ParseFloat(val.v))
      [] OTHER -> p

\* what parseComparison returns: the parser, the regex cache, the node and the error
compared(p, rm, n, err) == [p |-> p, rm |-> rm, n |-> n, err |-> err]

\* parseComparison: after handleRegex returned re for the node n
comparisonRegex(re, n, val) ==
    IF re.err # NoError THEN compared(re.p, re.rm, 0, re.err)
    ELSE compared(preparse(re.p, val, n), re.rm, n, NoError)

\* parseComparison: after newNodeComparison returned nn
comparisonNode(nn, op, val, rm) ==
    comparisonRegex(IF isRegexOperatorType(op.typ) THEN handleRegex(nn.p, rm, val, nn.n)
                    ELSE [p |-> nn.p, rm |-> rm, err |-> NoError],
                    nn.n, val)

\* parseComparison's  val.v = unquote(val)  for the string tokens
unquoted(val) ==
    IF val.typ \in {"tokenString", "tokenRawString"} THEN [val EXCEPT !.v = unquote(val)] ELSE val

\* parseComparison's  val.v = "(?i)" + val.v  for the case-insensitive regex operators
caseMarked(op, val) ==
    IF isCaseInsensitiveRegexOperatorType(op.typ) THEN [val EXCEPT !.v = CaseMarker \o @] ELSE val

\* parseComparison: the node, of the literal as rewritten
comparisonLiteral(q, ident, op, val, rm) ==
    comparisonNode(newNodeComparison(q, ident, op, val), op, val, rm)

\* parseComparison: after next returned the value
comparisonValue(ident, op, val, rm) ==
    IF val.err # NoError THEN compared(val.p, rm, 0, val.err)
    ELSE IF ~isValueType(val.t.typ)
    THEN compared(val.p, rm, 0, FilterError("KindParse", "expected value"))
    ELSE comparisonLiteral(val.p, ident, op, caseMarked(op, unquoted(val.t)), rm)

\* parseComparison: after next returned the operator
comparisonOperator(ident, op, rm) ==
    IF op.err # NoError THEN compared(op.p, rm, 0, op.err)
    ELSE IF ~isComparisonOperatorType(op.t.typ)
    THEN compared(op.p, rm, 0, FilterError("KindParse", "expected comparison operator"))
    ELSE comparisonValue(ident, op.t, parserNext(op.p), rm)

\* parseComparison: after expect returned the identifier
comparisonIdent(id, rm) ==
    IF id.err # NoError THEN compared(id.p, rm, 0, id.err)
    ELSE comparisonOperator(id.t, parserNext([id.p EXCEPT !.idents = @ \cup {id.t.v}]), rm)

\* parser.parseComparison, with the regex cache rm
parseComparison(p, rm) == comparisonIdent(expect(p, "tokenIdent"), rm)

(***************************************************************************)
(* Parser: the recursive descent, one step per call and per return         *)
(*                                                                         *)
(* stack holds the activation records of the parse functions, the running  *)
(* one last; a record's pc says where that function continues when the     *)
(* function it called returns, and ret is what that function returned.     *)
(***************************************************************************)

VARIABLES
    input,      \* the text handed to Parse
    phase,      \* "idle", "parsing", "parsed" (Parse returned an Expr) or "failed"
    p,          \* the parser: its lexer, arena, lookahead, parenCount and idents
    regexMap,   \* the process-wide cache: pattern text -> compiled regex
    stack,      \* the activation records of Parse, parseExpr, parseAND, ...
    ret,        \* the (int, error) the last parse function returned
    root,       \* Expr.root
    perr,       \* the error Parse returned
    evals,      \* the number of Eval calls made on the Expr
    cache,      \* the lookup cache of the last Eval call, as it returned
    calls,      \* the keys of the GetField calls of the last Eval call, in order
    seen,       \* node index -> what eval returned there, for the nodes it evaluated
    target,     \* the target of the last Eval call
    out,        \* the (bool, error) of the last Eval call
    procs,      \* the Parse calls of the goroutines that share regexMap
    compiles,   \* pattern text -> the number of regexp.Compile calls made on it
    overlapped, \* a Parse call has begun while another one was running
    lexer,      \* a lexer of the input, driven on its own by nextToken calls
    tokens      \* the tokens those nextToken calls returned, in order

vars ==
    <<input, phase, p, regexMap, stack, ret, root, perr, evals, cache, calls, seen, target, out,
      procs, compiles, overlapped, lexer, tokens>>

evalVars == <<evals, cache, calls, seen, target, out>>

goVars == <<procs, compiles, overlapped>>

lexVars == <<lexer, tokens>>

frame(fn, pc, left, t) == [fn |-> fn, pc |-> pc, left |-> left, t |-> t]

call(fn) == frame(fn, "call", 0, NoToken)

Top == stack[Len(stack)]

Running(fn, pc) == phase = "parsing" /\ stack # <<>> /\ Top.fn = fn /\ Top.pc = pc

\* the running function, with the parser q and the regex cache rm, returns
\* (n, err) to its caller
return(q, rm, n, err) ==
    [p |-> q, rm |-> rm, stack |-> SubSeq(stack, 1, Len(stack) - 1),
     ret |-> [n |-> n, err |-> err]]

\* the running function, with the parser q, calls fn and will continue at pc
invoke(q, fn, pc, left, t) ==
    [p |-> q, rm |-> regexMap,
     stack |-> [stack EXCEPT ![Len(stack)] = frame(Top.fn, pc, left, t)] \o <<call(fn)>>,
     ret |-> ret]

\* the step s of a parse function takes effect
Step(s) ==
    /\ p' = s.p
    /\ regexMap' = s.rm
    /\ stack' = s.stack
    /\ ret' = s.ret
    /\ UNCHANGED <<input, phase, root, perr, evalVars, goVars, lexVars>>

\* Parse, up to its call of parseExpr
Parse ==
    /\ phase = "idle"
    /\ IF input = <<>>
       THEN /\ phase' = "failed"
            /\ perr' = FilterError("KindParse", "empty input")
            /\ UNCHANGED <<p, stack>>
       ELSE /\ phase' = "parsing"
            /\ p' = newParser(input)
            /\ stack' = <<frame("Parse", "expr", 0, NoToken), call("parseExpr")>>
            /\ UNCHANGED perr
    /\ UNCHANGED <<input, regexMap, ret, root, evalVars, goVars, lexVars>>

\* a Parse that takes whatever token follows the root
ParseAnyToken(pk) == p' = pk.p /\ phase' = "parsed" /\ root' = ret.n /\ UNCHANGED perr

\* Parse, after its peek returned pk: the token after the root has to be EOF
ParsePeek(pk) ==
    /\ p' = pk.p
    /\ IF pk.t.typ # "tokenEOF"
       THEN /\ phase' = "failed"
            /\ perr' = FilterError("KindParse", "unexpected token after parsing")
            /\ UNCHANGED root
       ELSE phase' = "parsed" /\ root' = ret.n /\ UNCHANGED perr

\* Parse, from the return of parseExpr
ParseReturn ==
    /\ Running("Parse", "expr")
    /\ stack' = <<>>
    /\ IF ret.err # NoError
       THEN phase' = "failed" /\ perr' = ret.err /\ UNCHANGED <<p, root>>
       ELSE ParsePeek(parserPeek(p))
    /\ UNCHANGED <<input, regexMap, ret, evalVars, goVars, lexVars>>

\* a loop that parses its right operand with the function that runs the loop
operatorLoopNextSelf(x, left, operand) ==
    IF x.err # NoError THEN return(x.p, regexMap, 0, x.err)
    ELSE invoke(x.p, Top.fn, "right", left, x.t)

\* the for loop of parseExpr and of parseAND: after next returned the operator x
operatorLoopNext(x, left, operand) ==
    IF x.err # NoError THEN return(x.p, regexMap, 0, x.err)
    ELSE invoke(x.p, operand, "right", left, x.t)

\* the for loop of parseExpr and of parseAND: after peek returned pk
operatorLoopPeek(pk, left, op, operand) ==
    IF pk.t.typ = op THEN operatorLoopNext(parserNext(pk.p), left, operand)
    ELSE return(pk.p, regexMap, left, NoError)

\* the for loop of parseExpr (op tokenOR, operand parseAND) and of parseAND (op
\* tokenAND, operand parseNOT), entered with the parser and the node of b
operatorLoop(b, op, operand) == operatorLoopPeek(parserPeek(b.p), b.n, op, operand)

\* parseExpr / parseAND from the return of an operand: the left one is the node
\* as returned, a right one makes the binary node
operandReturned(op, operand) ==
    IF ret.err # NoError THEN return(p, regexMap, 0, ret.err)
    ELSE operatorLoop(IF Top.pc = "left" THEN [p |-> p, n |-> ret.n]
                      ELSE newNodeBinary(p, Top.left, Top.t, ret.n),
                      op, operand)

parseExprCall ==
    /\ Running("parseExpr", "call")
    /\ Step(invoke(p, "parseAND", "left", 0, NoToken))

\* parseExpr, from the return of parseAND
parseExprReturn ==
    /\ Running("parseExpr", "left") \/ Running("parseExpr", "right")
    /\ Step(operandReturned("tokenOR", "parseAND"))

parseANDCall ==
    /\ Running("parseAND", "call")
    /\ Step(invoke(p, "parseNOT", "left", 0, NoToken))

\* parseAND, from the return of parseNOT
parseANDReturn ==
    /\ Running("parseAND", "left") \/ Running("parseAND", "right")
    /\ Step(operandReturned("tokenAND", "parseNOT"))

\* a parseNOT that takes a whole AND expression for its operand
parseNOTNextAND(x) ==
    IF x.err # NoError THEN return(x.p, regexMap, 0, x.err)
    ELSE invoke(x.p, "parseAND", "child", 0, x.t)

\* parseNOT: after next returned the '!'
parseNOTNext(x) ==
    IF x.err # NoError THEN return(x.p, regexMap, 0, x.err)
    ELSE invoke(x.p, "parsePrimary", "child", 0, x.t)

\* parseNOT: after peek returned pk
parseNOTPeek(pk) ==
    IF pk.t.typ = "tokenNOT" THEN parseNOTNext(parserNext(pk.p))
    ELSE invoke(pk.p, "parsePrimary", "tail", 0, NoToken)

\* parseNOT, up to its call of parsePrimary
parseNOTCall ==
    /\ Running("parseNOT", "call")
    /\ Step(parseNOTPeek(parserPeek(p)))

\* parseNOT: the NOT node of the child that parsePrimary returned
parseNOTNode(n) == return(n.p, regexMap, n.n, NoError)

\* parseNOT, from the return of parsePrimary
parseNOTReturn ==
    /\ Running("parseNOT", "child") \/ Running("parseNOT", "tail")
    /\ Step(IF Top.pc = "tail" THEN return(p, regexMap, ret.n, ret.err)
            ELSE IF ret.err # NoError THEN return(p, regexMap, 0, ret.err)
            ELSE parseNOTNode(newNodeNOT(p, ret.n, Top.t)))

\* a parsePrimary that limits the depth of the nesting
parsePrimaryDepth(q) ==
    IF q.lexer.parenDepth > MaxParen
    THEN return(q, regexMap, 0, FilterError("KindParse", "too many parentheses"))
    ELSE invoke(q, "parseExpr", "expr", 0, NoToken)

\* parsePrimary: p.parenCount++ and the check against MaxParen
parsePrimaryCount(q) ==
    IF q.parenCount > MaxParen
    THEN return(q, regexMap, 0, FilterError("KindParse", "too many parentheses"))
    ELSE invoke(q, "parseExpr", "expr", 0, NoToken)

\* parsePrimary: after next returned the '('
parsePrimaryParen(x) ==
    IF x.err # NoError THEN return(x.p, regexMap, 0, x.err)
    ELSE parsePrimaryCount([x.p EXCEPT !.parenCount = @ + 1])

\* parsePrimary: parseComparison returned c
parsePrimaryComparison(c) == return(c.p, c.rm, c.n, c.err)

\* parsePrimary: after peek returned pk
parsePrimaryPeek(pk) ==
    CASE pk.t.typ = "tokenLparen" -> parsePrimaryParen(parserNext(pk.p))
      [] pk.t.typ = "tokenIdent" -> parsePrimaryComparison(parseComparison(pk.p, regexMap))
      [] OTHER -> return(pk.p, regexMap, 0,
                         FilterError("KindParse", "expected left parenthesis or identifier"))

\* parsePrimary, up to its call of parseExpr or through parseComparison
parsePrimaryCall ==
    /\ Running("parsePrimary", "call")
    /\ Step(parsePrimaryPeek(parserPeek(p)))

\* parsePrimary: after expect returned x for the ')'
parsePrimaryClose(x) ==
    IF x.err # NoError THEN return(x.p, regexMap, 0, x.err)
    ELSE return(x.p, regexMap, ret.n, NoError)

\* parsePrimary, from the return of the parenthesized parseExpr
parsePrimaryReturn ==
    /\ Running("parsePrimary", "expr")
    /\ Step(IF ret.err # NoError THEN return(p, regexMap, 0, ret.err)
            ELSE parsePrimaryClose(expect(p, "tokenRparen")))

(***************************************************************************)
(* Evaluator                                                               *)
(*                                                                         *)
(* A field value is the dynamic type and the value GetField returned.  A   *)
(* target is a function from keys to (value, error) pairs.                 *)
(***************************************************************************)

goValue(kind, s, f, d, t, b) == [kind |-> kind, s |-> s, f |-> f, d |-> d, t |-> t, b |-> b]

StringValue(s) == goValue("string", s, Fin(0, 0), Dur(0, 0), Instant(0, 0, 0), FALSE)
IntValue(n) == goValue("int", <<>>, Fin(4 * n, 0), Dur(0, 0), Instant(0, 0, 0), FALSE)
Float64Value(f) == goValue("float64", <<>>, f, Dur(0, 0), Instant(0, 0, 0), FALSE)
DurationValue(d) == goValue("time.Duration", <<>>, Fin(0, 0), d, Instant(0, 0, 0), FALSE)
TimeValue(t) == goValue("time.Time", <<>>, Fin(0, 0), Dur(0, 0), t, FALSE)
BoolValue(b) == goValue("bool", <<>>, Fin(0, 0), Dur(0, 0), Instant(0, 0, 0), b)
NilValue == goValue("nil", <<>>, Fin(0, 0), Dur(0, 0), Instant(0, 0, 0), FALSE)

\* the dynamic types eval converts to float64
NumericKinds == {"int", "float64"}

\* fmt.Sprint of a value of the default case of eval's type switch
Sprint(v) ==
    CASE v.kind = "bool" -> IF v.b THEN <<"t", "r", "u", "e">> ELSE <<"f", "a", "l", "s", "e">>
      [] v.kind = "nil" -> <<"<", "n", "i", "l", ">">>

result(v, err) == [v |-> v, err |-> err]

evalError(msg) == result(FALSE, FilterError("KindEval", msg))

\* a string comparison that takes every operator for ==
evalStringEqual(n, v) == result(v = n.val.v, NoError)

\* evalString
evalString(n, v) ==
    CASE n.op.typ = "tokenEQ" -> result(v = n.val.v, NoError)
      [] n.op.typ = "tokenEQI" -> result(EqualFold(v, n.val.v), NoError)
      [] n.op.typ = "tokenNEQ" -> result(v # n.val.v, NoError)
      [] n.op.typ = "tokenNEQI" -> result(~EqualFold(v, n.val.v), NoError)
      [] n.op.typ \in {"tokenREQ", "tokenREQI"} -> result(MatchString(n.re, v), NoError)
      [] n.op.typ \in {"tokenNREQ", "tokenNREQI"} -> result(~MatchString(n.re, v), NoError)
      [] OTHER -> evalError("invalid operator for string field")

\* evalNumber's switch on the operator, f the literal's number
compareNumber(op, v, f) ==
    CASE op = "tokenGT" -> result(FLess(f, v), NoError)
      [] op = "tokenGTE" -> result(FLess(f, v) \/ FEqual(v, f), NoError)
      [] op = "tokenLT" -> result(FLess(v, f), NoError)
      [] op = "tokenLTE" -> result(FLess(v, f) \/ FEqual(v, f), NoError)
      [] op = "tokenEQ" -> result(FLeqEpsilon(FAbs(FSub(v, f))), NoError)
      [] op = "tokenNEQ" -> result(FGtEpsilon(FAbs(FSub(v, f))), NoError)
      [] OTHER -> evalError("invalid operator for number field")

\* evalNumber: after strconv.ParseFloat returned parsed
evalNumberParsed(parsed, op, v) ==
    IF ~parsed.ok THEN evalError("invalid number") ELSE compareNumber(op, v, parsed.f)

\* an evalNumber that trusts n.num without looking at hasNum
evalNumberStored(n, v) == compareNumber(n.op.typ, v, n.num)

\* evalNumber
evalNumber(n, v) ==
    IF ~n.hasNum THEN evalNumberParsed(ParseFloat(n.val.v), n.op.typ, v)
    ELSE compareNumber(n.op.typ, v, n.num)

\* evalDuration's switch on the operator
compareDuration(op, v, d) ==
    CASE op = "tokenGT" -> result(DurLess(d, v), NoError)
      [] op = "tokenGTE" -> result(~DurLess(v, d), NoError)
      [] op = "tokenLT" -> result(DurLess(v, d), NoError)
      [] op = "tokenLTE" -> result(~DurLess(d, v), NoError)
      [] op = "tokenEQ" -> result(v = d, NoError)
      [] op = "tokenNEQ" -> result(v # d, NoError)
      [] OTHER -> evalError("invalid operator for duration field")

\* evalDuration: after time.ParseDuration returned parsed
evalDurationParsed(parsed, op, v) ==
    IF ~parsed.ok THEN evalError("invalid duration") ELSE compareDuration(op, v, parsed.d)

\* evalDuration
evalDuration(n, v) ==
    IF ~n.hasDur THEN evalDurationParsed(ParseDuration(n.val.v), n.op.typ, v)
    ELSE compareDuration(n.op.typ, v, n.dur)

\* evalTime's switch on the operator
compareTime(op, v, t) ==
    CASE op = "tokenGT" -> result(InstantLess(t, v), NoError)
      [] op = "tokenGTE" -> result(v = t \/ InstantLess(t, v), NoError)
      [] op = "tokenLT" -> result(InstantLess(v, t), NoError)
      [] op = "tokenLTE" -> result(v = t \/ InstantLess(v, t), NoError)
      [] op = "tokenEQ" -> result(v = t, NoError)
      [] op = "tokenNEQ" -> result(v # t, NoError)
      [] OTHER -> evalError("invalid operator for time field")

\* evalTime: after time.Parse returned parsed
evalTimeParsed(parsed, op, v) ==
    IF ~parsed.ok THEN evalError("invalid time") ELSE compareTime(op, v, parsed.t)

\* evalTime
evalTime(n, v) ==
    IF ~n.hasTime THEN evalTimeParsed(ParseTime(n.val.v), n.op.typ, v)
    ELSE compareTime(n.op.typ, v, n.time)

\* eval's type switch on the field value
compareField(n, field) ==
    CASE field.kind = "string" -> evalString(n, field.s)
      [] field.kind \in NumericKinds -> evalNumber(n, field.f)
      [] field.kind = "time.Time" -> evalTime(n, field.t)
      [] field.kind = "time.Duration" -> evalDuration(n, field.d)
      [] OTHER -> evalString(n, Sprint(field))

\* what one Eval call has done so far: its cache (a map, or nil), the keys of its
\* GetField calls in order, and what eval returned at each node it evaluated
evalState(isNil, map, keys, visited) ==
    [nil |-> isNil, map |-> map, calls |-> keys, seen |-> visited]

\* t.GetField(key), recorded in st
GetField(t, key, st) == [field |-> t[key].val, err |-> t[key].err,
                         st |-> [st EXCEPT !.calls = Append(@, key)]]

\* eval's  cache[key] = field
store(g, key) ==
    [g EXCEPT !.st.map = [k \in DOMAIN @ \cup {key} |-> IF k = key THEN g.field ELSE @[k]]]

\* eval's lookup on a miss, after GetField returned g: the value is cached when
\* there is no error and a cache
lookupMiss(g, key, isNil) == IF g.err # NoError \/ isNil THEN g ELSE store(g, key)

\* a lookup that asks the target every time
lookupUncached(t, key, st) == lookupMiss(GetField(t, key, st), key, st.nil)

\* eval's lookup of the field of a comparison: the cache first, GetField on a miss
lookup(t, key, st) ==
    IF ~st.nil /\ key \in DOMAIN st.map
    THEN [field |-> st.map[key], err |-> NoError, st |-> st]
    ELSE lookupMiss(GetField(t, key, st), key, st.nil)

\* an operator that evaluates its right operand whatever the left one is
neverSkipsRight(left) == FALSE

\* an operator that returns without its right operand whatever the left one is
alwaysSkipsRight(left) == TRUE

\* whether AND (OR) returns without its right operand, left being its left operand
andSkipsRight(left) == ~left
orSkipsRight(left) == left

\* eval returns r at node i
note(i, r, st) ==
    [v |-> r.v, err |-> r.err,
     st |-> [st EXCEPT !.seen = [k \in DOMAIN @ \cup {i} |-> IF k = i THEN r ELSE @[k]]]]

RECURSIVE eval(_, _, _, _)
\* eval at the binary node i: the right operand returned
evalRight(i, right) == note(i, result(right.v, right.err), right.st)

\* eval at the binary node i: the left operand returned
evalLeft(nodes, i, n, t, left) ==
    IF left.err # NoError THEN note(i, result(FALSE, left.err), left.st)
    ELSE IF n.op.typ = "tokenAND" /\ andSkipsRight(left.v)
    THEN note(i, result(FALSE, NoError), left.st)
    ELSE IF n.op.typ = "tokenOR" /\ orSkipsRight(left.v)
    THEN note(i, result(TRUE, NoError), left.st)
    ELSE evalRight(i, eval(nodes, n.right, t, left.st))

\* a NOT that negates the value of its child whatever the error
evalChildNegated(i, x) == note(i, result(~x.v, NoError), x.st)

\* eval at the NOT node i: the child returned
evalChild(i, x) ==
    IF x.err # NoError THEN note(i, result(FALSE, x.err), x.st)
    ELSE note(i, result(~x.v, NoError), x.st)

\* eval at the comparison node i: the lookup returned f
evalField(i, n, f) ==
    IF f.err # NoError THEN note(i, result(FALSE, FilterError("KindEval", f.err.msg)), f.st)
    ELSE note(i, compareField(n, f.field), f.st)

\* eval's switch on the type of the node n = nodes[i]
evalNode(nodes, i, n, t, st) ==
    CASE n.typ = "nodeBinary" /\ n.op.typ \in {"tokenAND", "tokenOR"} ->
            evalLeft(nodes, i, n, t, eval(nodes, n.left, t, st))
      [] n.typ = "nodeBinary" -> note(i, evalError("invalid logical operator"), st)
      [] n.typ = "nodeNOT" -> evalChild(i, eval(nodes, n.left, t, st))
      [] n.typ = "nodeComparison" -> evalField(i, n, lookup(t, n.ident.v, st))
      [] OTHER -> note(i, evalError("invalid node type"), st)

\* eval: the (bool, error) of node i against the target t, and the state of the call
eval(nodes, i, t, st) == evalNode(nodes, i, nodes[i + 1], t, st)

\* an Eval that goes on with the lookup cache of the Eval call before it
keptCache(idents) ==
    evalState(Cardinality(idents) = 0, cache, <<>>, [k \in {} |-> result(FALSE, NoError)])

\* the cache Eval hands to eval: a new map when the Expr has identifiers, else nil
newCache(idents) ==
    evalState(Cardinality(idents) = 0, [k \in {} |-> NilValue], <<>>,
              [k \in {} |-> result(FALSE, NoError)])

\* the most Eval calls the model counts on one Expr
MaxEvals == 2

\* Expr.Eval: eval returned r
EvalReturn(r) ==
    /\ out' = result(r.v, r.err)
    /\ cache' = r.st.map
    /\ calls' = r.st.calls
    /\ seen' = r.st.seen

\* Expr.Eval on the target t
Eval(t) ==
    /\ phase = "parsed"
    /\ evals < MaxEvals
    /\ EvalReturn(eval(p.nodes, root, t, newCache(p.idents)))
    /\ target' = t
    /\ evals' = evals + 1
    /\ UNCHANGED <<input, phase, p, regexMap, stack, ret, root, perr, goVars, lexVars>>

(***************************************************************************)
(* Inputs and targets                                                      *)
(***************************************************************************)

\* the error a target returns for a field it does not have
FieldError == FilterError("target", "field not found")

found(v) == [val |-> v, err |-> NoError]
missing == [val |-> NilValue, err |-> FieldError]

\* the largest integer a field of the model holds
MaxField == 1

\* the most units of 2^-31 a float64 field of the model lies away from 1
MaxUlps == 3

\* 2023-01-01T00:00:00Z and the day after it
NewYear == Instant(daysFromCivil(2023, 1, 1), 0, 0)
DayAfter == Instant(daysFromCivil(2023, 1, 2), 0, 0)

\* the values of the fields the model's targets hold: s is a string, n a number
\* (an int, a float64 near 1, a NaN or an infinity), d a time.Duration, t a
\* time.Time, k a bool or nil, y a bool, and every other field a small int
FieldValues(key) ==
    CASE key = <<"s">> -> {StringValue(<<"a", "b">>), StringValue(<<"A", "B">>),
                           StringValue(<<"1">>)}
      [] key = <<"n">> -> {IntValue(1), Float64Value(NaN), Float64Value(Inf(1)),
                           Float64Value(Inf(-1))}
                          \cup {Float64Value(Fin(4, u)) : u \in (-MaxUlps)..MaxUlps}
      [] key = <<"d">> -> {DurationValue(Dur(1, 0)), DurationValue(Dur(2, 0)),
                           DurationValue(Dur(0, 500000000))}
      [] key = <<"t">> -> {TimeValue(NewYear), TimeValue(DayAfter)}
      [] key = <<"k">> -> {BoolValue(TRUE), NilValue}
      [] key = <<"y">> -> {BoolValue(TRUE), BoolValue(FALSE)}
      [] OTHER -> {IntValue(n) : n \in 0..MaxField}

\* what GetField may return for key: a value, or the error of a missing field
FieldResults(key) == {found(v) : v \in FieldValues(key)} \cup {missing}

\* the targets of an Expr: GetField is only ever called with an identifier of it
Targets(idents) == {t \in [idents -> UNION {FieldResults(k) : k \in idents}] :
                        \A k \in idents : t[k] \in FieldResults(k)}

And == <<"&", "&">>
Or == <<"|", "|">>
Not == <<"!">>
Open == <<"(">>
Close == <<")">>
Group(e) == Open \o e \o Close

\* comparisons on the fields a and b
Atoms == {<<"a", "=", "=", "1">>, <<"a", "<", "1">>, <<"b", "=", "=", "1">>}

Literals == Atoms \cup {Not \o x : x \in Atoms}

Connectives == {And, Or}

\* the expressions Eval is checked on: up to three comparisons, every shape of
\* &&, || and ! over them
EvalInputs ==
    Literals
    \cup {x \o o \o y : x \in Literals, y \in Literals, o \in Connectives}
    \cup {Not \o Group(x \o o \o y) : x \in Atoms, y \in Atoms, o \in Connectives}
    \cup {x \o o1 \o y \o o2 \o z :
            x \in Atoms, y \in Atoms, z \in Atoms, o1 \in Connectives, o2 \in Connectives}
    \cup {x \o o1 \o Group(y \o o2 \o z) :
            x \in Atoms, y \in Atoms, z \in Atoms, o1 \in Connectives, o2 \in Connectives}
    \cup {Not \o Group(x \o o1 \o y) \o o2 \o z :
            x \in Atoms, y \in Atoms, z \in Atoms, o1 \in Connectives, o2 \in Connectives}

\* the comparison operators, as they are written
Operators ==
    {<<"=", "=">>, <<"=", "=", "*">>, <<"!", "=">>, <<"!", "=", "*">>,
     <<"=", "~">>, <<"=", "~", "*">>, <<"!", "~">>, <<"!", "~", "*">>,
     <<">">>, <<">", "=">>, <<"<">>, <<"<", "=">>}

NumberText == <<"1">>
FractionText == <<"1", ".", "5">>
DurationText == <<"1", "s">>
TimeText == <<"2", "0", "2", "3", "-", "0", "1", "-", "0", "1", "T",
              "0", "0", ":", "0", "0", ":", "0", "0", "Z">>
StringText == <<SQuote, "a", "b", SQuote>>
BoolText == <<"t", "r", "u", "e">>
NaNText == <<SQuote, "N", "a", "N", SQuote>>
InfText == <<SQuote, "I", "n", "f", SQuote>>

\* a literal of every token type a comparison takes
KindLiterals ==
    {NumberText, FractionText, DurationText, TimeText, StringText, BoolText, NaNText, InfText}

\* the fields of FieldValues, one of each kind
KindFields == {<<"s">>, <<"n">>, <<"d">>, <<"t">>, <<"k">>}

\* the numbers the field n is compared with for equality
EqualityLiterals == {NumberText, NaNText, InfText}

Equal(l) == <<"n", "=", "=">> \o l
NotEqual(l) == <<"n", "!", "=">> \o l

\* F == f || F != f,  F == f && F != f  and  !(F == f) && F != f
EitherInputs == {Equal(l) \o Or \o NotEqual(l) : l \in EqualityLiterals}
BothInputs == {Equal(l) \o And \o NotEqual(l) : l \in EqualityLiterals}
NeitherInputs == {Not \o Group(Equal(l)) \o And \o NotEqual(l) : l \in EqualityLiterals}

\* the expressions the comparisons are checked on: every field kind with every
\* operator and every literal, and the equality of numbers with its negation
KindInputs ==
    {k \o o \o l : k \in KindFields, o \in Operators, l \in KindLiterals}
    \cup EitherInputs \cup BothInputs \cup NeitherInputs

\* the comparison of the field x with 1
Cmp(x) == x \o <<"=", "=", "1">>

A == Cmp(<<"a">>)
B == Cmp(<<"b">>)
C == Cmp(<<"c">>)
D == Cmp(<<"d">>)

\* A within n nested pairs of parentheses
Nested(n) ==
    [i \in 1..(2 * n + Len(A)) |->
        IF i <= n THEN "(" ELSE IF i > n + Len(A) THEN ")" ELSE A[i - n]]

\* n groups (A) joined by &&
Sequential(n) ==
    [i \in 1..(n * (Len(A) + 4) - 2) |-> (Group(A) \o And)[((i - 1) % (Len(A) + 4)) + 1]]

\* the numbers of opening parentheses the limit is checked with
ParenCounts == {1, 2, MaxParen, MaxParen + 1}

\* n opening parentheses in two nests joined by &&
Halves(n) == Nested(n \div 2) \o And \o Nested(n - n \div 2)

ParenInputs ==
    {Nested(n) : n \in ParenCounts} \cup {Sequential(n) : n \in ParenCounts}
    \cup {Halves(n) : n \in ParenCounts}

Chain3(o1, o2) == A \o o1 \o B \o o2 \o C
Chain4(o1, o2, o3) == A \o o1 \o B \o o2 \o C \o o3 \o D

\* the chains of three and four comparisons without parentheses
ChainInputs ==
    {Chain3(o1, o2) : o1 \in Connectives, o2 \in Connectives}
    \cup {Chain4(o1, o2, o3) : o1 \in Connectives, o2 \in Connectives, o3 \in Connectives}

\* expressions with a NOT in front of a comparison or of a group
NotInputs ==
    {Not \o A \o o \o B : o \in Connectives}
    \cup {Not \o Group(A) \o o \o B : o \in Connectives}
    \cup {Not \o Group(A \o o1 \o B) \o o2 \o C : o1 \in Connectives, o2 \in Connectives}
    \cup {A \o o1 \o Not \o B \o o2 \o C : o1 \in Connectives, o2 \in Connectives}
    \cup {Not \o Group(Not \o A \o o \o B) : o \in Connectives}

\* complete expressions
Roots == {A, Group(A), A \o And \o B, Not \o A, A \o Or \o Not \o Group(B)}

\* what follows a complete expression: an identifier, a number, a string, a
\* bool, a comparison operator, a '!', a parenthesis, and characters the lexer
\* makes an error token of
Trailers ==
    {<<" ", "b">>, <<" ", "1">>, <<" ", SQuote, "x", SQuote>>, <<" ", "t", "r", "u", "e">>,
     <<"=", "=">>, <<" ", "<">>, <<"!">>, <<" ", "!">>, <<")">>, <<"(">>,
     <<"&">>, <<" ", "|">>, <<"#">>, <<" ", SQuote, "x">>}

Blank == <<" ">>

TrailerInputs ==
    Roots \cup {r \o Blank : r \in Roots} \cup {r \o t : r \in Roots, t \in Trailers}

\* the expressions Parse is checked on
ParseInputs == ParenInputs \cup ChainInputs \cup NotInputs \cup TrailerInputs

(***************************************************************************)
(* Parse calls running side by side                                        *)
(*                                                                         *)
(* Each goroutine parses one comparison at a time with a parser of its     *)
(* own.  The goroutines share regexMap, a sync.Map, which handleRegex      *)
(* reads with Load and writes with Store; a goroutine takes one step for   *)
(* what it does up to each of these and for its call of regexp.Compile.    *)
(***************************************************************************)

\* the goroutines that call Parse
NumGoroutines == 2

Goroutines == 1..NumGoroutines

\* the most Parse calls the goroutines make together
MaxParses == 3

\* a goroutine: where its Parse call stands, the input and the parser of the
\* call, the token t and the node index n handed to handleRegex, the regex it
\* compiled, what Parse returned and how many Parse calls have returned
goroutine(pc, in, q, t, n, re, ph, rt, err, parses) ==
    [pc |-> pc, input |-> in, p |-> q, t |-> t, n |-> n, re |-> re,
     phase |-> ph, root |-> rt, err |-> err, parses |-> parses]

idle == goroutine("idle", <<>>, newParser(<<>>), NoToken, 0, NoRegexp, "idle", 0, NoError, 0)

\* Parse returns the error err
failedWith(g, q, err) ==
    [g EXCEPT !.pc = "idle", !.p = q, !.phase = "failed", !.err = err, !.parses = @ + 1]

\* parseComparison: after newNodeComparison returned nn, handleRegex is called
\* for a regex operator
regexNode(g, op, val, nn) ==
    [g EXCEPT !.pc = IF isRegexOperatorType(op.typ) THEN "load" ELSE "finish",
              !.p = nn.p, !.t = val, !.n = nn.n]

\* parseComparison: the node, of the literal as rewritten
regexLiteral(g, q, ident, op, val) ==
    regexNode(g, op, val, newNodeComparison(q, ident, op, val))

\* parseComparison: after next returned the value
regexValue(g, ident, op, val) ==
    IF val.err # NoError THEN failedWith(g, val.p, val.err)
    ELSE IF ~isValueType(val.t.typ)
    THEN failedWith(g, val.p, FilterError("KindParse", "expected value"))
    ELSE regexLiteral(g, val.p, ident, op, caseMarked(op, unquoted(val.t)))

\* parseComparison: after next returned the operator
regexOperator(g, ident, op) ==
    IF op.err # NoError THEN failedWith(g, op.p, op.err)
    ELSE IF ~isComparisonOperatorType(op.t.typ)
    THEN failedWith(g, op.p, FilterError("KindParse", "expected comparison operator"))
    ELSE regexValue(g, ident, op.t, parserNext(op.p))

\* parseComparison: after expect returned the identifier
regexIdent(g, id) ==
    IF id.err # NoError THEN failedWith(g, id.p, id.err)
    ELSE regexOperator(g, id.t, parserNext([id.p EXCEPT !.idents = @ \cup {id.t.v}]))

\* Parse of the comparison in, up to handleRegex's regexMap.Load: parseNOT and
\* parsePrimary have looked at the first token
begin(g, in) ==
    regexIdent(goroutine("begin", in, newParser(in), NoToken, 0, NoRegexp, "parsing", 0,
                         NoError, g.parses),
               expect(parserPeek(newParser(in)).p, "tokenIdent"))

\* a handleRegex that compiles whatever the cache holds
loadedMiss(g, rm) ==
    IF g.t.v = <<>>
    THEN failedWith(g, g.p, FilterError("KindParse", "invalid regex: empty pattern"))
    ELSE [g EXCEPT !.pc = "compile"]

\* handleRegex: the test for the empty pattern and regexMap.Load, on the cache rm
loaded(g, rm) ==
    IF g.t.v = <<>>
    THEN failedWith(g, g.p, FilterError("KindParse", "invalid regex: empty pattern"))
    ELSE IF g.t.v \in DOMAIN rm
    THEN [g EXCEPT !.pc = "finish", !.p.nodes[g.n + 1].re = rm[g.t.v]]
    ELSE [g EXCEPT !.pc = "compile"]

\* a handleRegex that stores what regexp.Compile returned without looking at
\* its error
compiledAnyway(g, c) == [g EXCEPT !.pc = "store", !.re = c.re]

\* handleRegex: regexp.Compile returned c
compiledTo(g, c) ==
    IF ~c.ok THEN failedWith(g, g.p, FilterError("KindParse", "invalid regex"))
    ELSE [g EXCEPT !.pc = "store", !.re = c.re]

\* one more regexp.Compile call on the pattern pat
counted(n, pat) ==
    [x \in DOMAIN n \cup {pat} |-> IF x \in DOMAIN n THEN n[x] + (IF x = pat THEN 1 ELSE 0) ELSE 1]

\* regexMap.Store(pat, re)
stored(rm, pat, re) == [x \in DOMAIN rm \cup {pat} |-> IF x = pat THEN re ELSE rm[x]]

\* the rest of parseComparison and of Parse, whose peek returned pk
finished(g, pk) ==
    IF pk.t.typ # "tokenEOF"
    THEN failedWith(g, pk.p, FilterError("KindParse", "unexpected token after parsing"))
    ELSE [g EXCEPT !.pc = "idle", !.p = pk.p, !.phase = "parsed", !.root = g.n,
                   !.parses = @ + 1]

\* what a step of a goroutine leaves alone
aloneVars == <<input, phase, p, stack, ret, root, perr, evalVars, lexVars>>

\* the comparisons the goroutines parse: the pattern a is spelled with three
\* operators, (?i)a in two ways, [ does not compile and two patterns are empty
RegexInputs ==
    {<<"s", "=", "~", SQuote, "a", SQuote>>,
     <<"s", "!", "~", DQuote, "a", DQuote>>,
     <<"s", "=", "~", "*", SQuote, "a", SQuote>>,
     <<"s", "=", "~", SQuote, "(", "?", "i", ")", "a", SQuote>>,
     <<"s", "=", "~", SQuote, "[", SQuote>>,
     <<"s", "=", "~", SQuote, SQuote>>,
     <<"s", "=", "=", "1">>}

\* the Parse calls that have returned in the goroutines 1..g
RECURSIVE returned(_)
returned(g) == IF g = 0 THEN 0 ELSE procs[g].parses + returned(g - 1)

\* the goroutines whose Parse call is running
running == {g \in Goroutines : procs[g].pc # "idle"}

\* a goroutine calls Parse
Begin(g) ==
    /\ procs[g].pc = "idle"
    /\ returned(NumGoroutines) + Cardinality(running) < MaxParses
    /\ \E in \in RegexInputs : procs' = [procs EXCEPT ![g] = begin(procs[g], in)]
    /\ overlapped' = (overlapped \/ running # {})
    /\ UNCHANGED <<regexMap, compiles, aloneVars>>

\* handleRegex, up to regexMap.Load
Load(g) ==
    /\ procs[g].pc = "load"
    /\ procs' = [procs EXCEPT ![g] = loaded(procs[g], regexMap)]
    /\ UNCHANGED <<regexMap, compiles, overlapped, aloneVars>>

\* handleRegex: regexp.Compile, after Load missed
CompileRegex(g) ==
    /\ procs[g].pc = "compile"
    /\ procs' = [procs EXCEPT ![g] = compiledTo(procs[g], Compile(procs[g].t.v))]
    /\ compiles' = counted(compiles, procs[g].t.v)
    /\ UNCHANGED <<regexMap, overlapped, aloneVars>>

\* handleRegex: regexMap.Store(t.v, re) and p.nodes[i].re = re
Store(g) ==
    /\ procs[g].pc = "store"
    /\ regexMap' = stored(regexMap, procs[g].t.v, procs[g].re)
    /\ procs' = [procs EXCEPT ![g].pc = "finish", ![g].p.nodes[procs[g].n + 1].re = procs[g].re]
    /\ UNCHANGED <<compiles, overlapped, aloneVars>>

\* the rest of parseComparison, the returns up to Parse, and Parse's peek
Finish(g) ==
    /\ procs[g].pc = "finish"
    /\ procs' = [procs EXCEPT ![g] =
                    finished(procs[g], parserPeek(preparse(procs[g].p, procs[g].t, procs[g].n)))]
    /\ UNCHANGED <<regexMap, compiles, overlapped, aloneVars>>

(***************************************************************************)
(* The lexer on its own: a caller that keeps calling nextToken             *)
(***************************************************************************)

\* the most nextToken calls made on one lexer
MaxTokens == 6

\* the token nextToken returned is handed to the caller
taken(x) == lexer' = x.l /\ tokens' = Append(tokens, x.t)

\* one call of l.nextToken()
NextToken ==
    /\ Len(tokens) < MaxTokens
    /\ taken(nextToken(lexer))
    /\ UNCHANGED <<input, phase, p, regexMap, stack, ret, root, perr, evalVars, goVars>>

InitWith(inputs) ==
    /\ input \in inputs
    /\ phase = "idle"
    /\ p = newParser(<<>>)
    /\ regexMap = [k \in {} |-> NoRegexp]
    /\ stack = <<>>
    /\ ret = [n |-> 0, err |-> NoError]
    /\ root = 0
    /\ perr = NoError
    /\ evals = 0
    /\ cache = [k \in {} |-> NilValue]
    /\ calls = <<>>
    /\ seen = [k \in {} |-> result(FALSE, NoError)]
    /\ target = [k \in {} |-> missing]
    /\ out = result(FALSE, NoError)
    /\ procs = [g \in Goroutines |-> idle]
    /\ compiles = [k \in {} |-> 0]
    /\ overlapped = FALSE
    /\ lexer = newLexer(input)
    /\ tokens = <<>>

Init == InitWith(EvalInputs)

NextParse ==
    \/ Parse
    \/ ParseReturn
    \/ parseExprCall
    \/ parseExprReturn
    \/ parseANDCall
    \/ parseANDReturn
    \/ parseNOTCall
    \/ parseNOTReturn
    \/ parsePrimaryCall
    \/ parsePrimaryReturn

Next ==
    \/ NextParse
    \/ \E t \in Targets(p.idents) : Eval(t)

Spec == Init /\ [][Next]_vars

InitKinds == InitWith(KindInputs)

SpecKinds == InitKinds /\ [][Next]_vars

InitParse == InitWith(ParseInputs)

SpecParse == InitParse /\ [][NextParse]_vars

NextRegex == \E g \in Goroutines : Begin(g) \/ Load(g) \/ CompileRegex(g) \/ Store(g) \/ Finish(g)

\* the goroutines alone: no Expr of the sequential Parse is built
InitRegex == InitWith({<<>>})

SpecRegex == InitRegex /\ [][NextRegex]_vars

(***************************************************************************)
(* The tree of an Expr and the record of an Eval call                      *)
(***************************************************************************)

\* the nodes of the subtree at node i
RECURSIVE Subtree(_, _)
Subtree(nodes, i) ==
    CASE nodes[i + 1].typ = "nodeBinary" ->
            {i} \cup Subtree(nodes, nodes[i + 1].left) \cup Subtree(nodes, nodes[i + 1].right)
      [] nodes[i + 1].typ = "nodeNOT" -> {i} \cup Subtree(nodes, nodes[i + 1].left)
      [] OTHER -> {i}

\* the comparisons among the nodes S
Comparisons(S) == {i \in S : p.nodes[i + 1].typ = "nodeComparison"}

\* the identifier of the comparison i
IdentOf(i) == p.nodes[i + 1].ident.v

\* the identifiers the comparisons among the nodes S refer to
IdentsIn(S) == {IdentOf(i) : i \in Comparisons(S)}

\* the nodes of the Expr
Tree == Subtree(p.nodes, root)

\* the nodes the last Eval call evaluated
Reached == DOMAIN seen

\* the number of GetField calls the last Eval call made with key
GetFieldCalls(key) == Cardinality({c \in DOMAIN calls : calls[c] = key})

\* an Eval call has returned
Evaluated == phase = "parsed" /\ evals > 0

\* the binary node i was reached and its left operand decided it: a false left
\* operand of AND, a true left operand of OR
Decided(i) ==
    /\ i \in Reached
    /\ p.nodes[i + 1].typ = "nodeBinary"
    /\ p.nodes[i + 1].left \in Reached
    /\ seen[p.nodes[i + 1].left].err = NoError
    /\ \/ p.nodes[i + 1].op.typ = "tokenAND" /\ ~seen[p.nodes[i + 1].left].v
       \/ p.nodes[i + 1].op.typ = "tokenOR" /\ seen[p.nodes[i + 1].left].v

\* the identifiers that occur in the right operand of the binary node i and
\* nowhere else in the Expr
OnlyRight(i) ==
    IdentsIn(Subtree(p.nodes, p.nodes[i + 1].right))
    \ IdentsIn(Tree \ Subtree(p.nodes, p.nodes[i + 1].right))

(***************************************************************************)
(* C1: short-circuit                                                       *)
(***************************************************************************)

\* C1: when the left operand of an AND evaluates to false, or the left operand
\* of an OR to true, eval returns that value at once: no node of the right
\* operand is evaluated, GetField is never called for an identifier that occurs
\* only in the right operand, and no error is returned, whatever error the right
\* operand would produce.
ShortCircuit ==
    Evaluated =>
        \A i \in Tree :
            Decided(i) =>
                /\ seen[i] = result(seen[p.nodes[i + 1].left].v, NoError)
                /\ Subtree(p.nodes, p.nodes[i + 1].right) \cap Reached = {}
                /\ \A k \in OnlyRight(i) : GetFieldCalls(k) = 0
                /\ i = root => out = result(seen[p.nodes[i + 1].left].v, NoError)

\* the root is an AND whose left operand is false, and the lookup of a field
\* that occurs only in its right operand would fail: Eval returns (false, nil)
ShortCircuitHidesError ==
    /\ Evaluated
    /\ Decided(root)
    /\ p.nodes[root + 1].op.typ = "tokenAND"
    /\ \E k \in OnlyRight(root) : target[k].err # NoError
    /\ out = result(FALSE, NoError)
    /\ calls # <<>>

(***************************************************************************)
(* C2: a failed lookup                                                     *)
(***************************************************************************)

\* the comparison i was reached and the target has no field for it
LookupFailed(i) ==
    /\ i \in Comparisons(Reached)
    /\ target[IdentOf(i)].err # NoError

\* what eval returns where the lookup of key failed: false and an error of kind
\* KindEval around the error of the target
LookupError(key) == result(FALSE, FilterError("KindEval", target[key].err.msg))

\* the nodes of the Expr the node i lies under, i included
Above(i) == {j \in Tree : i \in Subtree(p.nodes, j)}

\* C2: when GetField returns an error at a comparison, eval returns false and
\* an error of kind KindEval wrapping it there; every NOT, AND and OR above
\* the comparison returns the same pair, and so does Eval: the error is never
\* turned into a boolean result.
LookupErrorPropagates ==
    Evaluated =>
        \A i \in Tree :
            LookupFailed(i) =>
                /\ seen[i] = LookupError(IdentOf(i))
                /\ \A j \in Above(i) : j \in Reached /\ seen[j] = LookupError(IdentOf(i))
                /\ out = LookupError(IdentOf(i))

\* the types of the nodes the comparison i lies under
TypesAbove(i) ==
    {IF p.nodes[j + 1].typ = "nodeBinary" THEN p.nodes[j + 1].op.typ ELSE p.nodes[j + 1].typ :
        j \in Above(i)}

\* a lookup failed under a NOT, an AND and an OR, and Eval returned its error
LookupErrorThroughAll ==
    /\ Evaluated
    /\ \E i \in Tree :
        /\ LookupFailed(i)
        /\ {"nodeNOT", "tokenAND", "tokenOR"} \subseteq TypesAbove(i)
        /\ out = LookupError(IdentOf(i))
        /\ out.err.kind = "KindEval"

(***************************************************************************)
(* C3: one lookup per identifier and call                                  *)
(***************************************************************************)

\* C3: in one Eval call GetField is called exactly once for every identifier
\* a reached comparison refers to, however many comparisons refer to it, and
\* never for any other identifier; the cache starts empty in every call, so
\* every value it holds when the call returns is the one the target of this
\* call gave, in the second call on an Expr as in the first.
OneLookupPerCall ==
    Evaluated =>
        /\ \A k \in p.idents :
            GetFieldCalls(k) = IF k \in IdentsIn(Reached) THEN 1 ELSE 0
        /\ \A c \in DOMAIN calls : calls[c] \in p.idents
        /\ DOMAIN cache \subseteq IdentsIn(Reached)
        /\ \A k \in DOMAIN cache : target[k].err = NoError /\ cache[k] = target[k].val

\* the second Eval call on an Expr reached two comparisons of one identifier,
\* and another identifier not at all
SecondCallLooksUpOnce ==
    /\ Evaluated
    /\ evals = 2
    /\ \E i \in Comparisons(Reached), j \in Comparisons(Reached) :
        i # j /\ IdentOf(i) = IdentOf(j) /\ GetFieldCalls(IdentOf(i)) = 1
    /\ \E k \in p.idents : k \notin IdentsIn(Reached) /\ GetFieldCalls(k) = 0

(***************************************************************************)
(* C4: Eval is truth-functional                                            *)
(***************************************************************************)

\* the value of the node i when every operand is evaluated: a comparison has
\* the value its field gives it, NOT negates, AND is a conjunction and OR a
\* disjunction
RECURSIVE Truth(_, _, _)
Truth(nodes, i, t) ==
    CASE nodes[i + 1].typ = "nodeNOT" -> ~Truth(nodes, nodes[i + 1].left, t)
      [] nodes[i + 1].typ = "nodeBinary" /\ nodes[i + 1].op.typ = "tokenAND" ->
            Truth(nodes, nodes[i + 1].left, t) /\ Truth(nodes, nodes[i + 1].right, t)
      [] nodes[i + 1].typ = "nodeBinary" /\ nodes[i + 1].op.typ = "tokenOR" ->
            Truth(nodes, nodes[i + 1].left, t) \/ Truth(nodes, nodes[i + 1].right, t)
      [] nodes[i + 1].typ = "nodeComparison" ->
            compareField(nodes[i + 1], t[nodes[i + 1].ident.v].val).v

\* every comparison of the Expr evaluates without error against the target t
ErrorFree(t) ==
    \A i \in Comparisons(Tree) :
        /\ t[IdentOf(i)].err = NoError
        /\ compareField(p.nodes[i + 1], t[IdentOf(i)].val).err = NoError

\* C4: when every comparison of the Expr evaluates without error, Eval returns
\* the truth-functional value of the tree and no error: short-circuiting never
\* changes the boolean result.
TruthFunctional ==
    Evaluated /\ ErrorFree(target) => out = result(Truth(p.nodes, root, target), NoError)

\* Eval skipped a part of a tree with a NOT in it whose comparisons are all free
\* of errors, and returned true
SkippedAndTrue ==
    /\ Evaluated
    /\ ErrorFree(target)
    /\ Reached # Tree
    /\ \E i \in Tree : p.nodes[i + 1].typ = "nodeNOT"
    /\ out = result(TRUE, NoError)

(***************************************************************************)
(* C5: the operators of each kind of field                                 *)
(***************************************************************************)

OrderingOperators == {"tokenGT", "tokenGTE", "tokenLT", "tokenLTE"}

\* the regex operators and the case-insensitive equalities
TextOperators ==
    {"tokenREQ", "tokenREQI", "tokenNREQ", "tokenNREQI", "tokenEQI", "tokenNEQI"}

\* the kinds of field eval compares as numbers, durations or times
TypedKinds == NumericKinds \cup {"time.Duration", "time.Time"}

\* whether the literal text converts to the kind of the field; a field compared
\* as a string takes every literal
Convertible(kind, text) ==
    CASE kind \in NumericKinds -> ParseFloat(text).ok
      [] kind = "time.Duration" -> ParseDuration(text).ok
      [] kind = "time.Time" -> ParseTime(text).ok
      [] OTHER -> TRUE

\* eval returned false and an error of kind KindEval
IsEvalError(r) == r.v = FALSE /\ r.err.kind = "KindEval"

\* the kind of the field the target holds for the comparison i
KindOf(i) == target[IdentOf(i)].val.kind

\* the reached comparisons whose lookup succeeded
Compared == {i \in Comparisons(Reached) : target[IdentOf(i)].err = NoError}

\* C5: a field compared as a string (a string, or a value of the fallback
\* kinds) with > >= < <= is an evaluation error; a numeric, duration or time
\* field with a regex operator or ==* or !=* is an evaluation error; every other
\* pair of kind and operator, with a literal that converts to the kind, gives a
\* boolean and no error.
OperatorsByKind ==
    Evaluated =>
        \A i \in Compared :
            /\ KindOf(i) \notin TypedKinds /\ p.nodes[i + 1].op.typ \in OrderingOperators
                    => IsEvalError(seen[i])
            /\ KindOf(i) \in TypedKinds /\ p.nodes[i + 1].op.typ \in TextOperators
                    => IsEvalError(seen[i])
            /\ (/\ ~(KindOf(i) \notin TypedKinds /\ p.nodes[i + 1].op.typ \in OrderingOperators)
                /\ ~(KindOf(i) \in TypedKinds /\ p.nodes[i + 1].op.typ \in TextOperators)
                /\ Convertible(KindOf(i), p.nodes[i + 1].val.v))
                    => seen[i].err = NoError /\ seen[i].v \in BOOLEAN
            /\ i = root => out = seen[i]

\* a string field compared with < : Eval returned an evaluation error
StringOrderingFails ==
    /\ Evaluated
    /\ root \in Compared
    /\ KindOf(root) = "string"
    /\ p.nodes[root + 1].op.typ = "tokenLT"
    /\ IsEvalError(out)

(***************************************************************************)
(* C6: the equality of numbers                                             *)
(***************************************************************************)

\* the field n holds a number
NumberField == <<"n">> \in DOMAIN target /\ target[<<"n">>] \in
                    {found(v) : v \in FieldValues(<<"n">>)}

\* C6, as the claim states it: for every number v of the field F and every
\* literal f exactly one of  F == f  and  F != f  is true, so  F == f || F != f
\* is true,  F == f && F != f  is false, and  !(F == f) && F != f  is F != f.
ExactlyOneOfEqualAndNotEqual ==
    Evaluated /\ NumberField =>
        /\ input \in EitherInputs => out = result(TRUE, NoError)
        /\ input \in BothInputs => out = result(FALSE, NoError)
        /\ input \in NeitherInputs => out = result(~seen[0].v, NoError)

\* the float64 a number field holds
NumberOf(i) == target[IdentOf(i)].val.f

\* the numbers that are neither NaN nor infinite
IsFinite(f) == f.k = "fin"

\* what holds of the equality of numbers: when the field and the literal are
\* finite, == is true exactly when they differ by at most Epsilon, and != is
\* true exactly when == is false
FiniteEquality ==
    Evaluated =>
        \A i \in Compared :
            (/\ KindOf(i) \in NumericKinds
             /\ IsFinite(NumberOf(i))
             /\ ParseFloat(p.nodes[i + 1].val.v).ok
             /\ IsFinite(ParseFloat(p.nodes[i + 1].val.v).f)
             /\ p.nodes[i + 1].op.typ \in {"tokenEQ", "tokenNEQ"})
            => seen[i] = result((p.nodes[i + 1].op.typ = "tokenEQ") =
                                 FLeqEpsilon(FAbs(FSub(NumberOf(i),
                                                       ParseFloat(p.nodes[i + 1].val.v).f))),
                                NoError)

(***************************************************************************)
(* C7: the limit on parentheses                                            *)
(***************************************************************************)

\* Parse has returned
Returned == phase \in {"parsed", "failed"}

\* the number of '(' in the text s; no input of the model has one in a string
Opens(s) == countOf(s, "(")

TooManyParens == FilterError("KindParse", "too many parentheses")

\* C7: Parse counts every '(' it consumes, over the whole expression: an
\* expression with at most MaxParen of them, nested or in sequence, parses, one
\* with exactly MaxParen included; Parse fails with "too many parentheses" at
\* the moment it consumes the (MaxParen + 1)-th one, whatever the depth of the
\* nesting there.
ParenLimit ==
    /\ p.parenCount <= MaxParen + 1
    /\ p.parenCount > MaxParen => TooManyParens \in {ret.err, perr}
    /\ phase = "parsed" => p.parenCount = Opens(input) /\ Opens(input) <= MaxParen
    /\ perr = TooManyParens =>
            /\ phase = "failed"
            /\ p.parenCount = MaxParen + 1
            /\ Opens(SubSeq(input, 1, p.lexer.pos)) = MaxParen + 1
            /\ input[p.lexer.pos] = "("
    /\ Returned /\ input \in ParenInputs =>
            IF Opens(input) <= MaxParen THEN phase = "parsed" ELSE perr = TooManyParens

\* an expression with MaxParen opening parentheses in two nests has parsed
AtLimitParses ==
    /\ phase = "parsed"
    /\ input = Halves(MaxParen)
    /\ p.parenCount = MaxParen
    /\ Opens(input) = MaxParen

(***************************************************************************)
(* C8: precedence and associativity                                        *)
(***************************************************************************)

\* the tree at node i in prefix notation: the operator of a binary node before
\* its left and its right operand, nodeNOT before its child, and the
\* identifier for a comparison
RECURSIVE Shape(_, _)
Shape(nodes, i) ==
    CASE nodes[i + 1].typ = "nodeBinary" ->
            <<nodes[i + 1].op.typ>> \o Shape(nodes, nodes[i + 1].left)
                                    \o Shape(nodes, nodes[i + 1].right)
      [] nodes[i + 1].typ = "nodeNOT" -> <<"nodeNOT">> \o Shape(nodes, nodes[i + 1].left)
      [] OTHER -> nodes[i + 1].ident.v

\* the tree of the Expr
Parsed == Shape(p.nodes, root)

IsIdent(x) == x \notin {"tokenAND", "tokenOR", "nodeNOT"}

\* the node i is a binary node of the operator op
IsBinary(i, op) == p.nodes[i + 1].typ = "nodeBinary" /\ p.nodes[i + 1].op.typ = op

\* C8: without parentheses && binds tighter than || and both associate to the
\* left: A && B || C is OR(AND(A, B), C), A || B && C is OR(A, AND(B, C)), and a
\* chain of one operator folds left to right. In every chain the comparisons
\* keep their order, no operand of an AND is an OR, and the right operand of a
\* binary node is never a node of the same operator.
Precedence ==
    /\ Returned /\ input \in ChainInputs => phase = "parsed"
    /\ phase = "parsed" =>
        /\ input = Chain3(And, Or) => Parsed = <<"tokenOR", "tokenAND", "a", "b", "c">>
        /\ input = Chain3(Or, And) => Parsed = <<"tokenOR", "a", "tokenAND", "b", "c">>
        /\ input = Chain3(And, And) => Parsed = <<"tokenAND", "tokenAND", "a", "b", "c">>
        /\ input = Chain3(Or, Or) => Parsed = <<"tokenOR", "tokenOR", "a", "b", "c">>
        /\ input = Chain4(And, And, And) =>
                Parsed = <<"tokenAND", "tokenAND", "tokenAND", "a", "b", "c", "d">>
        /\ input = Chain4(Or, Or, Or) =>
                Parsed = <<"tokenOR", "tokenOR", "tokenOR", "a", "b", "c", "d">>
        /\ input = Chain4(And, Or, And) =>
                Parsed = <<"tokenOR", "tokenAND", "a", "b", "tokenAND", "c", "d">>
        /\ input \in ChainInputs =>
            /\ SelectSeq(Parsed, IsIdent) \in {<<"a", "b", "c">>, <<"a", "b", "c", "d">>}
            /\ \A i \in Tree :
                /\ IsBinary(i, "tokenAND") =>
                    /\ ~IsBinary(p.nodes[i + 1].left, "tokenOR")
                    /\ p.nodes[p.nodes[i + 1].right + 1].typ = "nodeComparison"
                /\ IsBinary(i, "tokenOR") => ~IsBinary(p.nodes[i + 1].right, "tokenOR")

\* A || B && C || D has parsed to OR(OR(A, AND(B, C)), D)
MixedChainParsed ==
    /\ phase = "parsed"
    /\ input = Chain4(Or, And, Or)
    /\ Parsed = <<"tokenOR", "tokenOR", "a", "tokenAND", "b", "c", "d">>

(***************************************************************************)
(* C9: the operand of NOT                                                  *)
(***************************************************************************)

\* the NOT nodes of the Expr
NotNodes == {i \in Tree : p.nodes[i + 1].typ = "nodeNOT"}

\* the index in the input of the character after the '!' of the NOT node i
AfterNot(i) == p.nodes[i + 1].op.pos + 2

\* the index of the ')' that closes the '(' at the index i of the input
Closing(i) ==
    CHOOSE j \in (i + 1)..Len(input) :
        /\ input[j] = ")"
        /\ Opens(SubSeq(input, i, j)) = countOf(SubSeq(input, i, j), ")")
        /\ \A k \in (i + 1)..(j - 1) :
            Opens(SubSeq(input, i, k)) # countOf(SubSeq(input, i, k), ")")

\* the comparisons of the Expr whose identifier lies from the index i to the
\* index j of the input
Within(i, j) ==
    {c \in Comparisons(Tree) :
        p.nodes[c + 1].ident.pos + 1 >= i /\ p.nodes[c + 1].ident.pos + 1 <= j}

\* C9: NOT applies to exactly the Primary that follows the '!': when that is a
\* comparison the operand of the NOT node is that comparison, and when it is a
\* parenthesized group the operand holds the comparisons of the group and no
\* other; !A && B is AND(NOT(A), B) and never NOT(AND(A, B)).
NotTakesOnePrimary ==
    /\ Returned /\ input \in NotInputs => phase = "parsed"
    /\ phase = "parsed" =>
        /\ input = Not \o A \o And \o B => Parsed = <<"tokenAND", "nodeNOT", "a", "b">>
        /\ input = Not \o A \o Or \o B => Parsed = <<"tokenOR", "nodeNOT", "a", "b">>
        /\ input = Not \o Group(A \o And \o B) \o And \o C =>
                Parsed = <<"tokenAND", "nodeNOT", "tokenAND", "a", "b", "c">>
        /\ input = A \o And \o Not \o B \o And \o C =>
                Parsed = <<"tokenAND", "tokenAND", "a", "nodeNOT", "b", "c">>
        /\ \A i \in NotNodes :
            IF input[AfterNot(i)] = "("
            THEN Comparisons(Subtree(p.nodes, p.nodes[i + 1].left))
                    = Within(AfterNot(i), Closing(AfterNot(i)))
            ELSE /\ p.nodes[p.nodes[i + 1].left + 1].typ = "nodeComparison"
                 /\ p.nodes[p.nodes[i + 1].left + 1].ident.pos + 1 = AfterNot(i)

\* !A && B has parsed to AND(NOT(A), B)
NotBeforeAnd ==
    /\ phase = "parsed"
    /\ input = Not \o A \o And \o B
    /\ IsBinary(root, "tokenAND")
    /\ p.nodes[root + 1].left \in NotNodes
    /\ Parsed = <<"tokenAND", "nodeNOT", "a", "b">>

(***************************************************************************)
(* C10: the token after the root                                           *)
(***************************************************************************)

UnexpectedToken == FilterError("KindParse", "unexpected token after parsing")

\* C10: Parse succeeds only when the token after the complete root expression
\* is EOF, so a successful Parse has consumed the whole input; with an
\* identifier, a literal, an operator, a parenthesis or an error token of the
\* lexer there, Parse fails with "unexpected token after parsing".
OnlyEOFAfterRoot ==
    /\ phase = "parsed" => p.current.typ = "tokenEOF" /\ p.lexer.pos = Len(input)
    /\ perr = UnexpectedToken => phase = "failed" /\ p.current.typ # "tokenEOF"
    /\ Returned =>
        /\ \A r \in Roots : input \in {r, r \o Blank} => phase = "parsed"
        /\ \A r \in Roots, t \in Trailers : input = r \o t => perr = UnexpectedToken

\* Parse has failed on an error token of the lexer after a complete expression
ErrorTokenAfterRoot ==
    /\ phase = "failed"
    /\ input \in {r \o <<"#">> : r \in Roots}
    /\ perr = UnexpectedToken
    /\ p.current.typ = "tokenError"

(***************************************************************************)
(* C11: the literal of ==* and !=*                                         *)
(***************************************************************************)

\* the literals of KindLiterals that are neither a string nor a raw string
PlainLiterals == {NumberText, FractionText, DurationText, TimeText, BoolText}

CaseInsensitiveEqualities == {<<"=", "=", "*">>, <<"!", "=", "*">>}

RegexOperators == {<<"=", "~">>, <<"=", "~", "*">>, <<"!", "~">>, <<"!", "~", "*">>}

\* Parse returned a parse error
ParseFailed == phase = "failed" /\ perr.kind = "KindParse"

\* C11, as the claim states it: Parse fails with a parse error when ==* or !=*
\* is followed by a number, a duration, a time or a boolean literal.
CaseInsensitiveEqualityNeedsString ==
    \A k \in KindFields, o \in CaseInsensitiveEqualities, l \in PlainLiterals :
        Returned /\ input = k \o o \o l => ParseFailed

\* what Parse does with them: it returns an Expr whose root is the comparison
\* with the text of the literal as its value
CaseInsensitiveEqualityTakesAny ==
    \A k \in KindFields, o \in CaseInsensitiveEqualities, l \in PlainLiterals :
        Returned /\ input = k \o o \o l =>
            /\ phase = "parsed"
            /\ p.nodes[root + 1].op.typ \in {"tokenEQI", "tokenNEQI"}
            /\ p.nodes[root + 1].val.v = l

(***************************************************************************)
(* C13: the literal of a regex operator                                    *)
(***************************************************************************)

\* C13, as the claim states it: Parse rejects F =~ L, F !~ L, F =~* L and
\* F !~* L when L is a number, a duration, a time or a boolean literal.
RegexNeedsString ==
    \A k \in KindFields, o \in RegexOperators, l \in PlainLiterals :
        Returned /\ input = k \o o \o l => phase = "failed"

\* what Parse does with them: it compiles the text of the literal, with (?i) in
\* front of it for =~* and !~*, and returns an Expr
RegexTakesAny ==
    \A k \in KindFields, o \in RegexOperators, l \in PlainLiterals :
        Returned /\ input = k \o o \o l =>
            /\ phase = "parsed"
            /\ p.nodes[root + 1].re.compiled
            /\ p.nodes[root + 1].val.v \in {l, CaseMarker \o l}

(***************************************************************************)
(* The literals of a comparison                                            *)
(***************************************************************************)

\* the empty string literal in its three spellings
EmptyTexts == {<<SQuote, SQuote>>, <<DQuote, DQuote>>, <<BQuote, BQuote>>}

\* a regex operator with an empty pattern
EmptyPatternInputs == {<<"s">> \o o \o e : o \in RegexOperators, e \in EmptyTexts}

\* number tokens that strconv.ParseFloat rejects: a hexadecimal number without
\* an exponent and a binary number
LazyNumberTexts == {<<"0", "x", "1", "0">>, <<"0", "b", "1">>}

\* a duration token that time.ParseDuration rejects
LazyDurationTexts == {<<"1", ".", "2", ".", "3", "s">>}

\* time tokens that time.Parse(time.RFC3339, ...) rejects: month 13 and a time
\* without a zone
LazyTimeTexts ==
    {<<"2", "0", "2", "3", "-", "1", "3", "-", "0", "1", "T", "0", "0", ":", "0", "0", ":",
       "0", "0", "Z">>,
     <<"2", "0", "2", "3", "-", "0", "1", "-", "0", "1", "T", "0", "0", ":", "0", "0", ":",
       "0", "0">>}

\* n == 2 && n < 0x10, whose right operand an Eval on n = 1 does not reach
LazyRight == <<"n", "=", "=", "2">> \o And \o <<"n", "<", "0", "x", "1", "0">>

\* every operator with a literal the conversion of its field's kind rejects
LazyInputs ==
    {<<"n">> \o o \o l : o \in Operators, l \in LazyNumberTexts}
    \cup {<<"d">> \o o \o l : o \in Operators, l \in LazyDurationTexts}
    \cup {<<"t">> \o o \o l : o \in Operators, l \in LazyTimeTexts}
    \cup {LazyRight}

\* the quoted forms "1" and "1s" of a number and of a duration
QuotedNumberText == <<DQuote, "1", DQuote>>
QuotedDurationText == <<DQuote, "1", "s", DQuote>>

\* a number field and a duration field with a literal of their kind, bare and
\* quoted
EagerInputs ==
    {<<"n">> \o o \o l : o \in {<<"=", "=">>, <<"<">>},
                        l \in {NumberText, FractionText, QuotedNumberText}}
    \cup {<<"d">> \o o \o l : o \in {<<"=", "=">>, <<"<">>},
                             l \in {DurationText, QuotedDurationText}}

\* expressions with a lexical error: where a primary begins (at the start,
\* after &&, after ! and after a parenthesis), where the operator or the
\* literal of a comparison is read, after a complete expression, and where
\* the closing parenthesis is expected
LexErrorInputs ==
    {<<"=", DQuote>>, <<"=", "x">>, <<"=", SQuote>>, <<"#">>, <<Backslash>>, <<"&", DQuote>>,
     <<"|", "x">>,
     A \o And \o <<"#">>, A \o And \o <<"=", DQuote>>, Not \o <<"#">>, Open \o <<"=", DQuote>>,
     <<"a", "=", "x">>, <<"a", "=", DQuote>>, <<"a", "&">>,
     <<"a", "=", "=", DQuote, "b">>, <<"a", "=", "=", BQuote, "b">>,
     <<"a", "=", "=", SQuote, Backslash, "q", SQuote>>,
     A \o <<"#">>, A \o <<" ", Backslash>>, A \o <<"&", DQuote>>, A \o <<"=", DQuote>>,
     Open \o A, Open \o A \o <<"#">>, Open \o A \o <<"=", DQuote>>}

\* the bytes of the letter \u03bc
MuText == <<MuLead, MuCont>>

\* texts that begin like a duration: every unit, two segments, a fraction, a
\* number without a unit or with a letter that is none after the first
\* segment, and a number followed by n, u or \u03bc without the s
DurationTexts ==
    {<<"1", "h">>, <<"1", "m">>, <<"1", "s">>, <<"1", "m", "s">>, <<"1", "u", "s">>,
     <<"1", "n", "s">>, <<"1">> \o MuText \o <<"s">>, <<"1", "h", "3", "0", "m">>,
     <<"1", ".", "5", "s">>, <<"1", "h", "1", "x">>, <<"1", "h", "2">>,
     <<"1", "m", "2", "s", "3">>, <<"1", "h", "2", "n">>, <<"1", "h", "2", "u">>,
     <<"1", "h", "2">> \o MuText, <<"1", "h", "2", "n", "3", "s">>, <<"1", "h", "2", "n", " ">>}

\* the duration field compared with each of them
DurationInputs == {<<"d", "<">> \o x : x \in DurationTexts}

\* the expressions the literals of a comparison are checked on
\* the boolean literals in their six spellings, compared with the bool field y
BoolInputs == {<<"y">> \o o \o l : o \in {<<"=", "=">>, <<"!", "=">>}, l \in BoolLiterals}

LiteralInputs ==
    EmptyPatternInputs \cup LazyInputs \cup EagerInputs \cup LexErrorInputs \cup DurationInputs
    \cup EitherInputs \cup BothInputs \cup NeitherInputs \cup BoolInputs

InitLiterals == InitWith(LiteralInputs)

SpecLiterals == InitLiterals /\ [][Next]_vars

(***************************************************************************)
(* C12: the empty pattern                                                  *)
(***************************************************************************)

EmptyPattern == FilterError("KindParse", "invalid regex: empty pattern")

\* the regex cache holds no entry
NothingCached == DOMAIN regexMap = {}

\* C12, as the claim states it: every regex operator with an empty literal
\* makes Parse fail with the parse error 'empty pattern', and no regex is
\* compiled or cached for it.
EmptyPatternRejected ==
    \A o \in RegexOperators, e \in EmptyTexts :
        Returned /\ input = <<"s">> \o o \o e =>
            /\ phase = "failed"
            /\ perr = EmptyPattern
            /\ NothingCached

\* what Parse does: =~ and !~ fail with 'empty pattern'; for =~* and !~* the
\* pattern handleRegex tests is (?i), which it compiles and caches
EmptyPatternByCase ==
    \A o \in RegexOperators, e \in EmptyTexts :
        Returned /\ input = <<"s">> \o o \o e =>
            IF o \in {<<"=", "~">>, <<"!", "~">>}
            THEN phase = "failed" /\ perr = EmptyPattern /\ NothingCached
            ELSE /\ phase = "parsed"
                 /\ p.nodes[root + 1].val.v = CaseMarker
                 /\ p.nodes[root + 1].re = [src |-> CaseMarker, compiled |-> TRUE]
                 /\ regexMap = (CaseMarker :> p.nodes[root + 1].re)

(***************************************************************************)
(* C14: how often a pattern is compiled                                    *)
(***************************************************************************)

\* the patterns regexp.Compile was called on and accepted
CompiledPatterns == {x \in DOMAIN compiles : Compile(x).ok}

\* every goroutine is between two Parse calls
AllReturned == \A g \in Goroutines : procs[g].pc = "idle"

SequentialCompiles ==
    /\ ~overlapped
    /\ AllReturned
    /\ returned(NumGoroutines) = MaxParses
    /\ \E x \in CompiledPatterns : DOMAIN compiles = {x} /\ DOMAIN regexMap = {x}

(***************************************************************************)
(* C15: the regex cache under concurrent Parse calls                       *)
(***************************************************************************)

\* the regex regexp.Compile makes of the text x, if it makes one
CompiledFrom(re, x) == Compile(x).ok /\ re = Compile(x).re /\ re.compiled /\ re.src = x

\* the regex comparison nodes of the parser q
RegexNodes(q) == {i \in 1..Len(q.nodes) : isRegexOperatorType(q.nodes[i].op.typ)}

\* the literal of the goroutine's comparison, without its quotes
RECURSIVE LastToken(_)
LastToken(l) ==
    LET x == nextToken(l)
    IN IF nextToken(x.l).t.typ = "tokenEOF" THEN x.t ELSE LastToken(x.l)

\* the pattern of the comparison in: its literal without the quotes, after (?i)
\* for =~* and !~*
FinalPattern(in, op) ==
    (IF op.typ \in {"tokenREQI", "tokenNREQI"} THEN CaseMarker ELSE <<>>)
        \o unquote(LastToken(newLexer(in)))

\* every entry of the cache is the regex of its key, and every Parse call that
\* returned an Expr has put the regex of the final pattern on its regex node
CacheSound ==
    /\ \A x \in DOMAIN regexMap : CompiledFrom(regexMap[x], x)
    /\ \A g \in Goroutines :
        procs[g].phase = "parsed" =>
            \A i \in RegexNodes(procs[g].p) :
                /\ procs[g].p.nodes[i].val.v = FinalPattern(procs[g].input, procs[g].p.nodes[i].op)
                /\ CompiledFrom(procs[g].p.nodes[i].re, procs[g].p.nodes[i].val.v)

\* a step removes no entry of the cache
CacheKept == \A x \in DOMAIN regexMap : x \in DOMAIN regexMap'

\* C15: under every interleaving of the Parse calls, an entry of the regex
\* cache maps a pattern text to the regex compiled from that text, a pattern
\* that does not compile is not in the cache, no entry is ever removed, and a
\* Parse call that succeeded has stored on its regex node the regex compiled
\* from the node's final pattern text.
CacheCoherent == []CacheSound /\ [][CacheKept]_vars

\* two Parse calls that spell the pattern (?i)a differently have both compiled
\* it, the second Store replaced the entry of the first, and both returned
RacedStores ==
    /\ AllReturned
    /\ procs[1].phase = "parsed" /\ procs[2].phase = "parsed"
    /\ procs[1].input # procs[2].input
    /\ procs[1].t.v = CaseMarker \o <<"a">> /\ procs[2].t.v = CaseMarker \o <<"a">>
    /\ compiles = (CaseMarker \o <<"a">> :> 2)
    /\ DOMAIN regexMap = {CaseMarker \o <<"a">>}

(***************************************************************************)
(* C16: Eval leaves the Expr alone                                         *)
(***************************************************************************)

\* what Eval returns on the target t when it is the only call on the Expr:
\* eval on the arena, from the root, with a lookup cache that holds nothing
Alone(t) ==
    LET r == eval(p.nodes, root, t,
                  [nil |-> p.idents = {}, map |-> [k \in {} |-> NilValue], calls |-> <<>>,
                   seen |-> [k \in {} |-> result(FALSE, NoError)]])
    IN result(r.v, r.err)

\* the step is an Eval call
EvalCalled == evals' = evals + 1

\* an Eval call leaves the arena, the root, the identifiers and everything
\* else of the parser and of the regex cache as they were, and returns what it
\* returns when run alone
EvalFrame ==
    EvalCalled =>
        /\ p'.nodes = p.nodes /\ root' = root /\ p'.idents = p.idents
        /\ UNCHANGED <<input, phase, p, regexMap, stack, ret, perr, goVars, lexVars>>
        /\ out' = Alone(target')

Rejected(val) ==
    CASE val.typ = "tokenNumber" -> ~ParseFloat(val.v).ok
      [] val.typ = "tokenDuration" -> ~ParseDuration(val.v).ok
      [] val.typ = "tokenTime" -> ~ParseTime(val.v).ok
      [] OTHER -> FALSE

\* the kinds of field eval compares with a literal of the token type typ
KindsOf(typ) ==
    CASE typ = "tokenNumber" -> NumericKinds
      [] typ = "tokenDuration" -> {"time.Duration"}
      [] typ = "tokenTime" -> {"time.Time"}
      [] OTHER -> {}

\* the evaluation error of a literal of the token type typ that does not convert
InvalidLiteral(typ) ==
    CASE typ = "tokenNumber" -> evalError("invalid number")
      [] typ = "tokenDuration" -> evalError("invalid duration")
      [] typ = "tokenTime" -> evalError("invalid time")

\* C17: a number, duration or time token whose text the conversion rejects
\* does not make Parse fail; its node has no has-flag set; and every Eval that
\* reaches the node with a field of the literal's kind returns the evaluation
\* error 'invalid number', 'invalid duration' or 'invalid time', not a boolean.
LazyFallback ==
    /\ Returned /\ input \in LazyInputs => phase = "parsed"
    /\ phase = "parsed" =>
        \A i \in Comparisons(Tree) :
            Rejected(p.nodes[i + 1].val) =>
                ~p.nodes[i + 1].hasNum /\ ~p.nodes[i + 1].hasDur /\ ~p.nodes[i + 1].hasTime
    /\ Evaluated =>
        \A i \in Compared :
            Rejected(p.nodes[i + 1].val) /\ KindOf(i) \in KindsOf(p.nodes[i + 1].val.typ) =>
                /\ seen[i] = InvalidLiteral(p.nodes[i + 1].val.typ)
                /\ i = root => out = seen[i]

\* two Eval calls on n < 0x10 with a number: the second one, too, returned
\* 'invalid number'
HexNumberFails ==
    /\ evals = 2
    /\ input = <<"n", "<", "0", "x", "1", "0">>
    /\ target[<<"n">>] = found(IntValue(1))
    /\ out = evalError("invalid number")

(***************************************************************************)
(* C18: the literals converted by Parse                                    *)
(***************************************************************************)

\* the text of the literal of the comparison in, without quotes
LiteralText(in) == unquote(LastToken(newLexer(in)))

\* the root of the Expr carries the number or the duration its literal reads as
Preparsed ==
    \/ /\ p.nodes[root + 1].hasNum
       /\ IdentOf(root) = <<"n">>
       /\ p.nodes[root + 1].num = ParseFloat(LiteralText(input)).f
    \/ /\ p.nodes[root + 1].hasDur
       /\ IdentOf(root) = <<"d">>
       /\ p.nodes[root + 1].dur = ParseDuration(LiteralText(input)).d

\* C18, as the claim states it: Parse converts the numeric and the duration
\* literals, quoted forms such as "1" and "1s" included, so that the node of a
\* parsed comparison carries the value with hasNum or hasDur set.
EagerlyConverted == Returned /\ input \in EagerInputs => phase = "parsed" /\ Preparsed

\* what Parse does: it converts the number and duration tokens; a quoted
\* literal is a string token, its node has no has-flag set, and Eval converts
\* its text at every call
ConvertedByTokenType ==
    /\ Returned /\ input \in EagerInputs =>
        /\ phase = "parsed"
        /\ IF p.nodes[root + 1].val.typ \in {"tokenNumber", "tokenDuration"}
           THEN Preparsed
           ELSE /\ p.nodes[root + 1].val.typ = "tokenString"
                /\ ~p.nodes[root + 1].hasNum /\ ~p.nodes[root + 1].hasDur
    /\ Evaluated /\ input \in EagerInputs /\ target[IdentOf(root)].err = NoError =>
        out = compareField([p.nodes[root + 1] EXCEPT
                                !.hasNum = FALSE, !.hasDur = FALSE, !.val.v = LiteralText(input)],
                           target[IdentOf(root)].val)

(***************************************************************************)
(* C19: the lexical error in the error of Parse                            *)
(*                                                                         *)
(* A text is a sequence of pieces: the runes that come from the input one  *)
(* by one, the constant parts of a format as they are written (none holds  *)
(* a double quote or a backslash), a number as its decimal digits.         *)
(***************************************************************************)

\* fmt's %q of a rune (strconv.QuoteRune): in single quotes, the single quote
\* and the backslash escaped, the newline as \n, eof (-1) as U+FFFD
QuoteRune(r) ==
    <<SQuote>>
    \o (CASE r \in {SQuote, Backslash} -> <<Backslash, r>>
          [] r = "\n" -> <<Backslash, "n">>
          [] r = eof -> <<RuneError>>
          [] OTHER -> <<r>>)
    \o <<SQuote>>

\* fmt's %q of a string (strconv.Quote): in double quotes, the double quote and
\* the backslash escaped
RECURSIVE Escaped(_)
Escaped(s) ==
    IF s = <<>> THEN <<>>
    ELSE (IF Head(s) \in {DQuote, Backslash} THEN <<Backslash, Head(s)>> ELSE <<Head(s)>>)
         \o Escaped(Tail(s))

Quote(s) == <<DQuote>> \o Escaped(s) \o <<DQuote>>

\* fmt's  at %d:%d
At(line, col) == <<" at ", ToString(line), ":", ToString(col)>>

\* fmt's %#U of a rune: its code point and the rune in single quotes
CodePoint(r) ==
    <<"U+", (CASE r = "#" -> "0023" [] r = Backslash -> "005C" [] OTHER -> "FFFD"),
      " ", SQuote, r, SQuote>>

\* the text errorf formatted for the error token of the lexer l: the v of the
\* token.  The rune lexStmt rejects is the one before l.pos; the rune lexEQ,
\* lexAND and lexOR reject is the one peek returns at l.pos.
LexerMessage(l) ==
    CASE l.token.msg = "unexpected character" ->
            <<"unexpected character ">> \o CodePoint(DecodeLastRune(l.input, l.pos).r)
            \o At(l.line, l.col - RuneCells(DecodeLastRune(l.input, l.pos).r))
      [] l.token.msg = "unexpected character after '='" ->
            <<"unexpected character ">> \o QuoteRune(lexerPeek(l).r) \o <<" after '='">>
            \o At(l.line, l.col)
      [] l.token.msg = "unexpected character after '&'" ->
            <<"unexpected character ">> \o QuoteRune(lexerPeek(l).r) \o <<" after '&'">>
            \o At(l.line, l.col)
      [] l.token.msg = "unexpected character after '|'" ->
            <<"unexpected character ">> \o QuoteRune(lexerPeek(l).r) \o <<" after '|'">>
            \o At(l.line, l.col)
      [] OTHER -> <<l.token.msg>> \o At(l.line, l.col)

\* FilterError.Error() of the error Parse returned on the error token
\* p.current: next() wraps the token's v as a KindLex error, parsePrimary
\* formats it with %q, Parse with %s
ErrorText ==
    CASE perr.kind = "KindLex" -> <<"token error", ": ">> \o LexerMessage(p.lexer)
      [] perr.msg = "expected left parenthesis or identifier" ->
            <<"parse error", ": ", "expected left parenthesis or identifier, got ", "error">>
            \o At(p.current.line, p.current.col) \o <<": ">> \o Quote(LexerMessage(p.lexer))
      [] perr.msg = "unexpected token after parsing" ->
            <<"parse error", ": ", "unexpected token after parsing: ">>
            \o LexerMessage(p.lexer)
      [] OTHER -> <<"parse error", ": ", perr.msg>>

\* the text s holds the text m
Contains(s, m) == \E i \in 0..(Len(s) - Len(m)) : SubSeq(s, i + 1, i + Len(m)) = m

\* Parse has come to an error token of the lexer (the token p.current starts
\* as has the type of one and no message)
ErrorTokenReached == p.current.typ = "tokenError" /\ p.current.msg # ""

NumberChars == AsciiDigits \cup {"."}

\* the length of the longest prefix of s made of characters of set
RECURSIVE Span(_, _)
Span(s, set) == IF s # <<>> /\ Head(s) \in set THEN 1 + Span(Tail(s), set) ELSE 0

\* s without its first n characters
Drop(s, n) == SubSeq(s, n + 1, Len(s))

\* s begins with t
StartsWith(s, t) == Len(s) >= Len(t) /\ SubSeq(s, 1, Len(t)) = t

\* the length of the unit s begins with (h, m, s, ms, us, μs or ns), or 0
UnitLen(s) ==
    CASE StartsWith(s, <<"m", "s">>) \/ StartsWith(s, <<"u", "s">>)
            \/ StartsWith(s, <<"n", "s">>) -> 2
      [] StartsWith(s, MuText \o <<"s">>) -> Len(MuText) + 1
      [] s # <<>> /\ Head(s) \in {"h", "m", "s"} -> 1
      [] OTHER -> 0

\* the length of the sign s begins with, or 0
SignLen(s) == IF s # <<>> /\ Head(s) \in {"+", "-"} THEN 1 ELSE 0

\* the length of the segment (a number and a unit) s begins with, or 0
SegmentLen(s) ==
    LET n == Span(Drop(s, SignLen(s)), NumberChars)
        u == UnitLen(Drop(s, SignLen(s) + n))
    IN IF n > 0 /\ u > 0 THEN SignLen(s) + n + u ELSE 0

\* the length of the segments s begins with
RECURSIVE RunLen(_)
RunLen(s) == IF SegmentLen(s) = 0 THEN 0 ELSE SegmentLen(s) + RunLen(Drop(s, SegmentLen(s)))

\* s is one segment or more and nothing else
IsRun(s) == s # <<>> /\ RunLen(s) = Len(s)

\* the DURATION tokens among the literals of the comparisons parsed so far, as
\* the lexer emitted them: not those parseComparison has put (?i) in front of
DurationTokens ==
    {p.nodes[i].val : i \in {j \in 1..Len(p.nodes) :
                                /\ p.nodes[j].val.typ = "tokenDuration"
                                /\ ~isCaseInsensitiveRegexOperatorType(p.nodes[j].op.typ)}}

\* the input after the token t
After(t) == Drop(input, t.pos + Len(t.v))

\* C20, as the claim states it: the text of every DURATION token is a run of
\* number+unit segments with the units h, m, s, ms, us, μs and ns, and the
\* longest one: what follows the token does not begin with a segment; 1h1x is
\* lexed as DURATION 1h, NUMBER 1, IDENT x.
DurationTokenIsRun ==
    /\ \A t \in DurationTokens : IsRun(t.v) /\ SegmentLen(After(t)) = 0
    /\ Returned /\ input = <<"d", "<", "1", "h", "1", "x">> =>
        /\ DurationTokens # {}
        /\ \A t \in DurationTokens : t.v = <<"1", "h">>
        /\ p.current.typ = "tokenNumber" /\ p.current.v = <<"1">>
        /\ nextToken(p.lexer).t.typ = "tokenIdent" /\ nextToken(p.lexer).t.v = <<"x">>

\* a number followed by n, u or μ and no s
Stray(s) ==
    /\ Span(s, NumberChars) > 0
    /\ Drop(s, Span(s, NumberChars)) \in {<<"n">>, <<"u">>, MuText}

\* what scanDuration does: the token is a run of segments, or a run of segments
\* followed by a number and n, u or μ, which scanDuration leaves in the
\* token when the s of ns, us or μs does not follow
DurationTokenIsRunOrStray ==
    /\ \A t \in DurationTokens :
        /\ RunLen(t.v) > 0
        /\ IsRun(t.v) \/ Stray(Drop(t.v, RunLen(t.v)))
        /\ IsRun(t.v) => SegmentLen(After(t)) = 0
    /\ Returned /\ input = <<"d", "<", "1", "h", "2", "n">> =>
        /\ phase = "parsed"
        /\ p.nodes[root + 1].val.typ = "tokenDuration"
        /\ p.nodes[root + 1].val.v = <<"1", "h", "2", "n">>

(***************************************************************************)
(* The token stream of the lexer                                           *)
(***************************************************************************)

Digit3 == <<ArabicLead, ArabicCont>>

\* parentheses, balanced and not, alone and around a comparison
ParenTexts ==
    {Close, Close \o Close, Open, Open \o Open, Open \o Close,
     Open \o Close \o Close, Open \o Open \o Close,
     Close \o Open, Close \o <<" ">> \o A, A \o Close,
     Open \o A, Open \o A \o Close, Close \o <<"a">>}

\* texts that end in a lexical error, at the start or after some tokens
BrokenTexts ==
    {<<"#">>, <<"a", "#">>, <<"a", "=", "=", SQuote, "b">>, <<"a", "&", "b">>,
     <<"a", "|">>, <<BQuote, "a">>, <<DQuote, Backslash, "q", DQuote>>,
     <<"a", " ", "#", " ", "b">>, <<"a", "=", "1">>, <<MuCont>>, Open \o <<"#">>}

\* texts that start like a time, a duration or a number and stop short of one
NumberTexts ==
    {<<"1", "2", "3">>, <<"2", "0", "2", "4", "-", "1">>, <<"1", "h", "2">>,
     <<"1", "n">>, <<"1", "2", " ">>, <<".">>, <<"+">>, <<"-", "a">>, <<"1", " ", "a">>,
     <<"1", ".", "5", "h">>, <<"0", "x", "1", "f">>, <<"1", "e", "5">>,
     <<"1", "2", "=", "=", "3">>, <<"1", "m", "s", "2">>, <<"-", "1", "h">>,
     <<"2", "0", "2", "4", "-", "0", "1", "-", "0", "1", "T", "0", "0", ":", "0", "0", ":",
       "0", "0", "Z">>,
     <<"2", "0", "2", "4", "-", "0", "1", "-", "0", "1">>}

\* texts with a digit of unicode.IsDigit outside ASCII
UnicodeDigitTexts ==
    {Digit3, Digit3 \o <<" ">>, Digit3 \o <<"a">>, <<"a", "=", "=">> \o Digit3 \o <<" ">>,
     <<"1">> \o Digit3, Digit3 \o <<"1">>, <<"a">> \o Digit3, Digit3 \o Digit3}

LexInputs ==
    ParenTexts \cup BrokenTexts \cup NumberTexts \cup UnicodeDigitTexts
        \cup {<<>>, <<" ">>, A, A \o And \o B, Not \o A,
              <<"a", "\n", "=", "=", "\n", "1">>, <<"a", "=", "~", "*", SQuote, "b", SQuote>>,
              <<"a", "<", "=", "1", "s">>, <<"t", "r", "u", "e">>}

InitLex == InitWith(LexInputs)

\* the lexer alone: no parser reads the text
SpecLex == InitLex /\ [][NextToken]_vars

(***************************************************************************)
(* C21: a right parenthesis that closes more than was opened               *)
(***************************************************************************)

IsTerminal(t) == t.typ \in {"tokenEOF", "tokenError"}

\* the tokens before the first terminal one, and that one
Stream == {i \in 1..Len(tokens) : \A j \in 1..(i - 1) : ~IsTerminal(tokens[j])}

\* the parentheses open after the first i tokens: '(' tokens less ')' tokens
Depth(i) ==
    Cardinality({j \in 1..i : tokens[j].typ = "tokenLparen"})
        - Cardinality({j \in 1..i : tokens[j].typ = "tokenRparen"})

UnexpectedRparen(t) == t.typ = "tokenError" /\ t.msg = "unexpected right parenthesis"

\* C21 as stated: the token returned for a ')' that makes the counter negative
\* is the "unexpected right parenthesis" error token, so no right-parenthesis
\* token ever leaves the counter negative.
UnexpectedRparenAtOnce ==
    \A i \in Stream : tokens[i].typ = "tokenRparen" => Depth(i) >= 0

\* C21, amended: a ')' is returned as a right-parenthesis token whatever the
\* counter becomes; the "unexpected right parenthesis" error token is returned
\* only once the whole input is consumed, and then exactly when the counter is
\* negative at that point.
UnexpectedRparenAtEnd ==
    \A i \in Stream :
        /\ tokens[i].pos < Len(input) /\ input[tokens[i].pos + 1] = ")"
               => tokens[i].typ = "tokenRparen" /\ tokens[i].v = Close
        /\ UnexpectedRparen(tokens[i]) => tokens[i].pos = Len(input) /\ Depth(i - 1) < 0
        /\ IsTerminal(tokens[i]) /\ tokens[i].pos = Len(input) /\ Depth(i - 1) < 0
               => UnexpectedRparen(tokens[i])

\* a ')' that closes more than was opened came back as a right-parenthesis
\* token, other tokens followed it, and the error token came at the end
RparenReportedLate ==
    \E i, j \in Stream :
        /\ i + 1 < j
        /\ tokens[i].typ = "tokenRparen" /\ Depth(i) < 0
        /\ UnexpectedRparen(tokens[j])

(***************************************************************************)
(* C22: the end of the input                                               *)
(***************************************************************************)

UnclosedLparen(t) == t.typ = "tokenError" /\ t.msg = "unclosed left parenthesis"

\* C22: when the first terminal token is EOF, the whole input was consumed (the
\* token is empty and lies at the end of the input) and as many ')' as '(' tokens
\* came before it; when the input is exhausted with more '(' than ')' tokens
\* returned, the terminal token is the "unclosed left parenthesis" error token,
\* which is returned in no other case.
EOFOnlyWhenBalanced ==
    \A i \in Stream :
        /\ tokens[i].typ = "tokenEOF"
               => /\ tokens[i].pos = Len(input) /\ tokens[i].v = <<>>
                  /\ lexer.pos = Len(input)
                  /\ Depth(i - 1) = 0
        /\ IsTerminal(tokens[i]) /\ tokens[i].pos = Len(input) /\ Depth(i - 1) > 0
               => UnclosedLparen(tokens[i])
        /\ UnclosedLparen(tokens[i]) => tokens[i].pos = Len(input) /\ Depth(i - 1) > 0

\* the input was exhausted inside a group, after some tokens of it
UnclosedAtEnd ==
    \E i \in Stream :
        /\ UnclosedLparen(tokens[i])
        /\ \E j \in 1..(i - 1) : tokens[j].typ \notin {"tokenLparen", "tokenRparen"}

(***************************************************************************)
(* C23: terminal tokens are absorbing                                      *)
(***************************************************************************)

\* the position of a lexer: what a nextToken call could advance
Position(l) == <<l.pos, l.line, l.col, l.startPos, l.parenDepth, l.state>>

\* C23, on the tokens returned: at most one of them is an error token, and every
\* token after an error or EOF token is an EOF token.
TerminalAbsorbing ==
    \A i \in 1..Len(tokens) :
        IsTerminal(tokens[i])
            => \A j \in (i + 1)..Len(tokens) : tokens[j].typ = "tokenEOF"

\* C23, on a call: a nextToken call made after an error or EOF token was
\* returned returns (an EOF token, the call is total) and leaves the lexer where
\* it was.
TerminalHolds ==
    tokens # <<>> /\ IsTerminal(tokens[Len(tokens)])
        => /\ tokens' = Append(tokens, token("tokenEOF", <<>>, "", lexer.pos, lexer.line, lexer.col))
           /\ Position(lexer') = Position(lexer)
           /\ lexer'.state = "nil"

\* C23: both, in every behaviour of the lexer
TerminalTokensAbsorb == []TerminalAbsorbing /\ [][TerminalHolds]_vars

\* calls went on after an error token that followed ordinary tokens
CalledAfterError ==
    \E i \in 2..(Len(tokens) - 2) : tokens[i].typ = "tokenError" /\ tokens[i].msg # ""

(***************************************************************************)
(* C24: the progress of the lexer                                          *)
(***************************************************************************)

\* the offset after the token t
End(t) == t.pos + Len(t.v)

\* C24 as stated: every token returned before the terminal one covers at least
\* one byte of the input and starts at or after the end of the token before it
\* (so that at most Len(input) such tokens come before the terminal token).
TokensAdvance ==
    \A i \in Stream :
        ~IsTerminal(tokens[i])
            => /\ Len(tokens[i].v) >= 1
               /\ i > 1 => tokens[i].pos >= End(tokens[i - 1])
               /\ i <= Len(input)

\* What the lexer does: a token that covers no byte is a number token that
\* starts at a digit outside ASCII, and the lexer stays at that digit; every
\* other token covers at least one byte and starts at or after the end of the
\* token before it.
EmptyNumberAtUnicodeDigit ==
    \A i \in Stream :
        ~IsTerminal(tokens[i])
            => /\ i > 1 => tokens[i].pos >= End(tokens[i - 1])
               /\ Len(tokens[i].v) = 0
                      => /\ tokens[i].typ = "tokenNumber"
                         /\ DecodeRune(input, tokens[i].pos).r = ArabicThree
                         /\ lexer.pos = tokens[i].pos

(***************************************************************************)
(* C25: lookahead that consumes nothing                                    *)
(***************************************************************************)

Where(l) == <<l.pos, l.line, l.col>>

\* the next nextToken call enters lexNumber
NumberAhead == lexer.state = "lexStmt" /\ ~lexer.hasNext /\ lexStmt(lexer).state = "lexNumber"

\* the lexer at the entry of lexNumber, after its scanTime call, and at its
\* scanDuration call, after l.pos, l.line and l.col were reset and l.backup() ran
NumberStart == lexStmt(lexer)
AfterTime == scanTime(backup(NumberStart))
DurationStart == rewind(AfterTime.l, NumberStart)

\* the first two calls of scanDuration, in scanDurationNumber:
\* l.accept("+-") and l.acceptRun("0123456789.")
SignAccepted == accept(DurationStart, {"+", "-"})
DigitsAccepted == acceptRun(SignAccepted.l, AsciiDigits \cup {"."})

\* accept left the lexer where it was when it failed, acceptRun after the
\* n bytes of its run, and a peek at that point leaves it where it is
NothingConsumed ==
    /\ ~SignAccepted.ok => Where(SignAccepted.l) = Where(DurationStart)
    /\ DigitsAccepted.l.pos = SignAccepted.l.pos + DigitsAccepted.n
    /\ Where(lexerPeek(DigitsAccepted.l).l) = Where(DigitsAccepted.l)

\* C25 as stated: whenever lexNumber calls scanDuration after scanTime failed,
\* also when scanTime had reached the end of the input, the failing accept, the
\* last read of acceptRun and a peek consume nothing.
LookaheadConsumesNothing == NumberAhead /\ ~AfterTime.ok => NothingConsumed

\* What the lexer does: they consume nothing as long as no read has reached
\* the end of the input; once one has, l.atEOF stays set and the rune that
\* accept rejects stays consumed.
LookaheadConsumesNothingBeforeEOF ==
    NumberAhead /\ ~AfterTime.ok
        => /\ ~AfterTime.l.atEOF => NothingConsumed
           /\ AfterTime.l.atEOF /\ ~SignAccepted.ok /\ DurationStart.pos < Len(input)
                  => SignAccepted.l.pos > DurationStart.pos

(***************************************************************************)
(* C26: the order of the arena                                             *)
(***************************************************************************)

\* the indices of the nodes appended before the node i
Before(i) == 0..(i - 1)

\* C26: while Parse runs and after it returned, the left and right index of
\* every binary node and the operand index of every NOT node are indices of
\* nodes appended before it, and the root of a returned Expr is a node of the
\* arena: following child indices from any node ends after finitely many steps.
ArenaOrdered ==
    /\ \A i \in 0..(Len(p.nodes) - 1) :
           /\ p.nodes[i + 1].typ = "nodeBinary"
                  => p.nodes[i + 1].left \in Before(i) /\ p.nodes[i + 1].right \in Before(i)
           /\ p.nodes[i + 1].typ = "nodeNOT" => p.nodes[i + 1].left \in Before(i)
    /\ phase = "parsed" => root \in 0..(Len(p.nodes) - 1)

\* Parse is running and has built a binary node over a NOT node over a binary node
NestedWhileParsing ==
    /\ phase = "parsing"
    /\ \E i \in 0..(Len(p.nodes) - 1) :
           /\ p.nodes[i + 1].typ = "nodeBinary"
           /\ p.nodes[p.nodes[i + 1].left + 1].typ = "nodeNOT"
           /\ p.nodes[p.nodes[p.nodes[i + 1].left + 1].left + 1].typ = "nodeBinary"

(***************************************************************************)
(* C27: the regex of a comparison                                          *)
(***************************************************************************)

\* the comparison i has one of the operators =~ !~ =~* !~*
IsRegexComparison(i) == isRegexOperatorType(p.nodes[i + 1].op.typ)

\* C27: in the Expr a successful Parse returned, a comparison node holds a
\* compiled regex exactly when its operator is a regex operator, and it is the
\* regex of the node's pattern; so every regex comparison Eval reached on a
\* string field had a regex to match with and gave a boolean.
RegexIffRegexOperator ==
    phase = "parsed"
        => /\ \A i \in Comparisons(0..(Len(p.nodes) - 1)) :
                  /\ p.nodes[i + 1].re # NoRegexp <=> IsRegexComparison(i)
                  /\ IsRegexComparison(i) => CompiledFrom(p.nodes[i + 1].re, p.nodes[i + 1].val.v)
           /\ \A i \in Compared :
                  IsRegexComparison(i) /\ KindOf(i) = "string"
                      => p.nodes[i + 1].re # NoRegexp /\ seen[i].err = NoError

\* Eval matched a string field against the regex of a comparison
RegexMatched ==
    /\ Evaluated
    /\ \E i \in Compared :
           IsRegexComparison(i) /\ KindOf(i) = "string" /\ seen[i].v = TRUE

(***************************************************************************)
(* C28: boolean literals                                                   *)
(***************************************************************************)

\* the spellings of true
TrueLiterals == {<<"t", "r", "u", "e">>, <<"T", "r", "u", "e">>, <<"T", "R", "U", "E">>}

\* the reached comparisons of a bool field with a boolean literal by == or !=
BoolComparisons ==
    {i \in Compared : /\ KindOf(i) = "bool"
                      /\ p.nodes[i + 1].val.typ = "tokenBool"
                      /\ p.nodes[i + 1].op.typ \in {"tokenEQ", "tokenNEQ"}}

\* the literal of the comparison i has the truth value of the field
SameTruth(i) == (p.nodes[i + 1].val.v \in TrueLiterals) <=> target[IdentOf(i)].val.b

\* Parse takes every spelling of a boolean literal as a boolean literal
BoolLiteralsAccepted ==
    input \in BoolInputs /\ Returned
        => phase = "parsed" /\ p.nodes[root + 1].val.typ = "tokenBool"

\* C28 as stated: every spelling is accepted, and on a bool field F == L is true
\* and F != L is false whenever L has the truth value of the field.
BoolLiteralByTruth ==
    /\ BoolLiteralsAccepted
    /\ Evaluated
           => \A i \in BoolComparisons :
                  SameTruth(i)
                      => seen[i] = result(p.nodes[i + 1].op.typ = "tokenEQ", NoError)

\* What Eval does: it compares the text fmt.Sprint gives the field ("true" or
\* "false") with the text of the literal, so F == L is true exactly when L is
\* spelled in lower case and has the truth value of the field.
BoolLiteralByText ==
    /\ BoolLiteralsAccepted
    /\ Evaluated
           => \A i \in BoolComparisons :
                  seen[i] = result((p.nodes[i + 1].op.typ = "tokenEQ")
                                       <=> (Sprint(target[IdentOf(i)].val) = p.nodes[i + 1].val.v),
                                   NoError)

(***************************************************************************)
(* C29: equality and ordering of numbers                                   *)
(***************************************************************************)

\* the reached comparisons of a numeric field with a literal that is a number
NumberComparisons ==
    {i \in Compared : KindOf(i) \in NumericKinds /\ ParseFloat(p.nodes[i + 1].val.v).ok}

\* the value of the field of the comparison i and the number of its literal
FieldOf(i) == target[IdentOf(i)].val.f
LiteralOf(i) == ParseFloat(p.nodes[i + 1].val.v).f

\* what evalNumber returns for the field and the literal of the comparison i
\* under the operator typ
WithOperator(i, typ) == evalNumber([p.nodes[i + 1] EXCEPT !.op.typ = typ], FieldOf(i))

\* F == L gives F >= L and F <= L; F > L or F < L gives F != L
Agree(i) ==
    /\ WithOperator(i, "tokenEQ").v
           => WithOperator(i, "tokenGTE").v /\ WithOperator(i, "tokenLTE").v
    /\ WithOperator(i, "tokenGT").v \/ WithOperator(i, "tokenLT").v
           => WithOperator(i, "tokenNEQ").v

\* C29 as stated: for every numeric field value and every numeric literal Eval
\* compared, equality and ordering agree.
EqualityAgreesWithOrdering ==
    Evaluated
        => \A i \in NumberComparisons :
               /\ seen[i] = WithOperator(i, p.nodes[i + 1].op.typ)
               /\ Agree(i)

\* What evalNumber does: == and != allow a difference of Epsilon, the ordering
\* operators allow none, so they agree when the field equals the literal or
\* lies further than Epsilon from it, and disagree on every other finite value.
EqualityAgreesBeyondEpsilon ==
    Evaluated
        => \A i \in NumberComparisons :
               /\ seen[i] = WithOperator(i, p.nodes[i + 1].op.typ)
               /\ Agree(i) <=> \/ FEqual(FieldOf(i), LiteralOf(i))
                               \/ ~FLeqEpsilon(FAbs(FSub(FieldOf(i), LiteralOf(i))))

(***************************************************************************)
(* C30: the kind of the error for a lexer error token                      *)
(***************************************************************************)

\* Parse failed with the error token of the lexer as the parser's current token
FailedAtErrorToken == phase = "failed" /\ ErrorTokenReached

\* C30 as stated: a Parse failure caused by a lexer error token is of kind
\* KindLex, whether next or expect consumed the token or a peek looked at it.
LexFailureIsKindLex == FailedAtErrorToken => perr.kind = "KindLex"

\* What Parse does: the error is of kind KindLex with the lexer's message when
\* next or expect consumed the error token; when a peek looked at it (in
\* parsePrimary, or in Parse's end-of-input check after the && and || loops
\* passed it by) the token is still pending and the error is of kind KindParse.
LexFailureKindByRoute ==
    FailedAtErrorToken
        => IF p.peeked
           THEN perr.kind = "KindParse"
           ELSE perr = FilterError("KindLex", p.current.msg)

====
